---- MODULE Spec2Model ----
(***************************************************************************)
(* Model of hqp.profiles.BaseProfileManager (src/src/hqp/profiles.py):     *)
(* the profile store over an abstract transport (copy / run / list /       *)
(* hash), the switch protocol with its restart-wait poll loop, and the     *)
(* checksum based detection of the active profile; and of                  *)
(* hqp.xml_client.HQPClient (src/src/hqp/xml_client.py): the one-shot      *)
(* exchange on the control port and the decoding of its responses.         *)
(*                                                                         *)
(* File names and profile names are sequences of characters, so that the   *)
(* suffix test and the stripping of the extension are computed as the code *)
(* computes them.  A path is a sequence too: a directory token, "/", and   *)
(* the characters of the file name.                                        *)
(*                                                                         *)
(* A coroutine runs atomically between two awaits; every action below is   *)
(* one such segment.  Time is a discrete monotonic clock.                  *)
(***************************************************************************)
EXTENDS Integers, Sequences, FiniteSets, TLC

\* ------------------------------------------------------------- bounds
MaxNow == 3          \* the clock stops advancing here
MaxUriLen == 2       \* the longest uri of those enumerated

\* -------------------------------------------------- program constants
ProfilesPath == <<"/var/lib/hqplayer/home/cfgs">>
ConfigPath   == <<"/etc/hqplayer/hqplayerd.xml">>
Ext          == <<".", "x", "m", "l">>
RestartCommand == "sudo systemctl restart hqplayerd"

\* Python's None, as a value comparable with names and with checksums.
None == <<"None">>

\* ------------------------------------------------------- input domains
Tasks    == {1, 2}
SeqTasks == {1}

\* "a.b.xml", "L R.xml" and "nxml" (which ends in "xml", not in ".xml").
FileNames ==
  { <<"a", ".", "b", ".", "x", "m", "l">>,
    <<"L", " ", "R", ".", "x", "m", "l">>,
    <<"n", "x", "m", "l">> }

\* The names of the two profiles, and one that no file carries.
SwitchNames ==
  { <<"a", ".", "b">>, <<"L", " ", "R">>, <<"Z">> }

\* The two managers.
Backends == {"ssh", "local"}

\* wait_timeout: negative, zero, and two ticks of the clock.
WaitTimeouts == {-1, 0, 2}

\* What a probe's socket exchange can produce: an exception, or the set of
\* markers found in the bytes received.
ProbeErrors    == {"refused", "reset", "timeout"}
ProbeResponses == SUBSET {"<Status", "state="}

VARIABLES
  dir_exists,     \* profiles_path names a directory that can be listed
  profiles_dir,   \* the files of profiles_path, in listing order
  config,         \* the file at config_path
  alive,          \* hqplayerd answers status queries on the XML port
  now,            \* time.monotonic()
  wait_timeout,   \* self.wait_timeout
  poll_interval,  \* self.poll_interval
  backend,        \* which manager it is: SSHProfileManager or LocalProfileManager
  pc,             \* per task: where its switch_profile call stands
  epoch,          \* per task: flips whenever the task starts a new call
  op,             \* per task: the method of its current (or last) call
  arg_name,       \* per task: switch_profile's name
  arg_wait,       \* per task: switch_profile's wait
  log,            \* per task: transport calls, probes and sleeps of the call
  copy_ok,        \* per task: what _copy_file returned to its latest call
  exit_code,      \* per task: exit code of the restart command
  start,          \* per task: _wait_for_hqplayer's start
  wake,           \* per task: when the pending asyncio.sleep may return
  probe_at,       \* per task: clock value at the latest probe's start
  alive_seen,     \* per task: some probe of the call returned True
  probe_error,    \* per task: the socket error of the latest probe, or ""
  cancelled,      \* per task: its call was cancelled from outside
  ret,            \* per task: switch_profile's return value
  detected,       \* per task: get_current_profile's return value
  listed,         \* per task: list_profiles' return value
  volume_min,     \* self.volume_min
  volume_max,     \* self.volume_max
  device,         \* the player's volume; absent when the player may answer anything
  xpc,            \* per task: where its HQPClient call stands
  xouter,         \* per task: volume_up or volume_down when it made the call
  xstep,          \* per task: the step given to volume_up or volume_down
  xarg,           \* per task: set_volume's value or playlist_add's uri
  commands,       \* per task: the commands of the call, as handed over
  xop,            \* per task: the HQPClient method of its call
  xcmd,           \* per task: the xml_command given to _send_command
  sent,           \* per task: the bytes written to the connection
  conn,           \* per task: the connection of the call
  io,             \* per task: the socket operations of the call, as completed
  xresp,          \* per task: the response _send_command returned
  xexc,           \* per task: the exception the call raised, or ""
  xok,            \* per task: the success flag a command returned
  xmsg,           \* per task: the message parse_result_xml gave beside it
  xstatus         \* per task: the HQPStatus that get_status returned

fsVars   == <<dir_exists, profiles_dir, config>>
cfgVars  == <<wait_timeout, poll_interval, backend>>
callVars == <<pc, epoch, op, arg_name, arg_wait, log, copy_ok, exit_code,
              start, wake, probe_at, alive_seen, probe_error, cancelled, ret,
              detected, listed>>
boundVars == <<volume_min, volume_max>>
exchVars == <<xop, xcmd, commands, sent, conn, io, xresp>>
xmlVars  == <<boundVars, device, xpc, xouter, xstep, xarg, commands, xop, xcmd, sent,
              conn, io, xresp, xexc, xok, xmsg, xstatus>>
vars     == <<dir_exists, profiles_dir, config, alive, now, wait_timeout,
              poll_interval, backend, device, pc, epoch, op, arg_name, arg_wait, log, copy_ok,
              exit_code, start, wake, probe_at, alive_seen, probe_error,
              cancelled, ret, detected, listed, volume_min, volume_max, xpc,
              xouter, xstep, xarg, commands, xop, xcmd, sent, conn, io, xresp,
              xexc, xok, xmsg, xstatus>>

\* ------------------------------------------------------------- files
NoFile == [exists |-> FALSE, readable |-> FALSE, data |-> 1]

File(d) == [exists |-> TRUE, readable |-> TRUE, data |-> d]

UnreadableFile == [exists |-> TRUE, readable |-> FALSE, data |-> 1]

\* f"{self.profiles_path}/{filename}"
ProfilePath(filename) == ProfilesPath \o <<"/">> \o filename

\* f"{self.profiles_path}/{name}.xml"
CandidatePath(name) == ProfilesPath \o <<"/">> \o name \o Ext

\* A bug EndsWith could have: the suffix is tested without its separator.
EndsWithBare(s, suffix) ==
  /\ Len(s) >= Len(suffix) - 1
  /\ SubSeq(s, Len(s) - Len(suffix) + 2, Len(s)) = Tail(suffix)

\* str.endswith
EndsWith(s, suffix) ==
  /\ Len(s) >= Len(suffix)
  /\ SubSeq(s, Len(s) - Len(suffix) + 1, Len(s)) = suffix

\* A bug StripExt could have: the separator is left on the name.
StripExt3(filename) ==
  IF Len(filename) > 3 THEN SubSeq(filename, 1, Len(filename) - 3) ELSE <<>>

\* filename[:-4]
StripExt(filename) ==
  IF Len(filename) > 4 THEN SubSeq(filename, 1, Len(filename) - 4) ELSE <<>>

\* The file a path names, in directory d with active config cfg.
FileAt(path, d, cfg) ==
  IF path = ConfigPath THEN cfg
  ELSE IF \E i \in 1..Len(d) : ProfilePath(d[i].name) = path
       THEN d[CHOOSE i \in 1..Len(d) : ProfilePath(d[i].name) = path].file
       ELSE NoFile

\* hashlib.md5(...).hexdigest(): a digest is never empty and never None, and
\* equal bytes give equal digests.
Md5(data) == <<"md5", data>>

\* _get_file_hash: the digest, or None when the file cannot be read.
GetFileHash(path, d, cfg) ==
  LET f == FileAt(path, d, cfg)
  IN  IF f.exists /\ f.readable THEN Md5(f.data) ELSE None

\* A bug ListFiles could have: the listing comes back in reverse.
ListFilesReversed(d) ==
  IF dir_exists THEN [i \in 1..Len(d) |-> d[Len(d) + 1 - i].name] ELSE <<>>

\* _list_files: the file names of the directory, in the listing's order; the
\* empty list when the directory cannot be listed (`ls` exits non-zero,
\* iterdir raises OSError).
ListFiles(d) ==
  IF dir_exists THEN [i \in 1..Len(d) |-> d[i].name] ELSE <<>>

\* _copy_file's precondition on the source; io_ok is the transport's part.
CanCopy(src, d, cfg, io_ok) ==
  LET f == FileAt(src, d, cfg) IN io_ok /\ f.exists /\ f.readable

\* _copy_file's precondition on a destination inside profiles_path.
CanCreate(io_ok) == io_ok /\ dir_exists

\* The index of the entry of d that path names, 0 when there is none.
IndexOf(path, d) ==
  IF \E i \in 1..Len(d) : ProfilePath(d[i].name) = path
  THEN CHOOSE i \in 1..Len(d) : ProfilePath(d[i].name) = path
  ELSE 0

\* d without its entry i.
RemoveAt(d, i) == [k \in 1..(Len(d) - 1) |-> IF k < i THEN d[k] ELSE d[k + 1]]

\* d with entry e put in as its entry i.
InsertAt(d, i, e) ==
  [k \in 1..(Len(d) + 1) |-> IF k < i THEN d[k] ELSE IF k = i THEN e ELSE d[k - 1]]

\* ------------------------------------------------ the pure algorithms
\* list_profiles' loop over the listing, from index i on.
RECURSIVE ListProfilesFrom(_, _)
ListProfilesFrom(files, i) ==
  IF i > Len(files) THEN <<>>
  ELSE IF EndsWith(files[i], Ext)
       THEN <<[name |-> StripExt(files[i]), path |-> ProfilePath(files[i])]>>
            \o ListProfilesFrom(files, i + 1)
       ELSE ListProfilesFrom(files, i + 1)

ListProfiles(d) == ListProfilesFrom(ListFiles(d), 1)

LogEntry(o, a) == [op |-> o, arg |-> a]

\* `if not current_hash`: a digest is never the empty string, so None is the
\* one falsy value a hash call returns.
FalsyNever(h) == FALSE

Falsy(h) == h = None

\* `if profile_hash == current_hash`
HashesMatchTruthy(profile_hash, current_hash) ==
  profile_hash # None /\ current_hash # None

HashesMatchAny(profile_hash, current_hash) == TRUE

HashesMatch(profile_hash, current_hash) == profile_hash = current_hash

\* get_current_profile's loop over the listing, from index i on: the value
\* returned and the hash calls made.
RECURSIVE ScanProfiles(_, _, _, _, _)
ScanProfiles(files, i, current_hash, d, cfg) ==
  IF i > Len(files) THEN [ret |-> None, ops |-> <<>>]
  ELSE IF ~EndsWith(files[i], Ext)
       THEN ScanProfiles(files, i + 1, current_hash, d, cfg)
       ELSE LET profile_path == ProfilePath(files[i])
                profile_hash == GetFileHash(profile_path, d, cfg)
                call         == <<LogEntry("hash", profile_path)>>
            IN  IF HashesMatch(profile_hash, current_hash)
                THEN [ret |-> StripExt(files[i]), ops |-> call]
                ELSE LET rest == ScanProfiles(files, i + 1, current_hash, d, cfg)
                     IN  [ret |-> rest.ret, ops |-> call \o rest.ops]

\* get_current_profile: the value returned and the transport calls made.
GetCurrentProfile(d, cfg) ==
  LET current_hash == GetFileHash(ConfigPath, d, cfg)
      first        == <<LogEntry("hash", ConfigPath)>>
  IN  IF Falsy(current_hash)
      THEN [ret |-> None, ops |-> first]
      ELSE LET scan == ScanProfiles(ListFiles(d), 1, current_hash, d, cfg)
           IN  [ret |-> scan.ret,
                ops |-> first \o <<LogEntry("list", ProfilesPath)>> \o scan.ops]

\* _check_hqplayer_alive's _check: what the exchange on the socket gave.
ProbeOutcome(err, resp) == [error |-> err, response |-> resp]

FullResponse == {"<Status", "state="}

\* What the socket can give, depending on whether the player is up.
ProbeOutcomes(up) ==
  IF up
  THEN {ProbeOutcome("", FullResponse), ProbeOutcome("timeout", {})}
  ELSE {ProbeOutcome(e, {}) : e \in ProbeErrors}
       \cup {ProbeOutcome("", r) : r \in ProbeResponses \ {FullResponse}}

\* A bug Caught could have: `except ConnectionError`, which a timeout is not.
CaughtConnectionError(err) == err \in {"refused", "reset"}

\* `except (socket.error, socket.timeout, OSError)`: every error of a socket
\* is an OSError.
Caught(err) == err \in {"refused", "reset", "timeout"}

\* _check lets the socket's error through to the caller.
ProbeRaises(outcome) == outcome.error # "" /\ ~Caught(outcome.error)

\* b"<Status" in response and b"state=" in response; False on a socket error.
CheckAlive(outcome) ==
  IF outcome.error # "" THEN FALSE
  ELSE "<Status" \in outcome.response /\ "state=" \in outcome.response

\* ------------------------------------------------ the control protocol
\* f'<?xml version="1.0" encoding="UTF-8"?>{xml_command}'
Prologue == "<?xml version=\"1.0\" encoding=\"UTF-8\"?>"

FullCommand(xml_command) == <<Prologue>> \o xml_command

\* The methods that send one fixed element and return the result's flag.
SimpleCommands ==
  [play |-> "<Play/>", pause |-> "<Pause/>", stop |-> "<Stop/>",
   next_track |-> "<Next/>", previous_track |-> "<Previous/>",
   playlist_clear |-> "<PlaylistClear/>"]

SimpleMethods == DOMAIN SimpleCommands

\* A float is held as the integer that is Unit times its value: the values
\* modelled are the multiples of 0.00001, the first power of ten that str()
\* writes with an exponent.
Unit == 100000

\* set_volume's values: -20.0 and -15.5, 5.0 and -60.0 (outside the default
\* bounds), 0.5 and 0.00001.
VolumeValues ==
  {-20 * Unit, -155 * (Unit \div 10), 5 * Unit, -60 * Unit, Unit \div 2, 1}

\* volume_min and volume_max: the defaults, and a narrower range.
DefaultBounds == <<-40 * Unit, 0>>

VolumeBounds == {DefaultBounds, <<-20 * Unit, -16 * Unit>>}

\* step: the default 1.0, and 0.5.
StepValues == {Unit, Unit \div 2}

DigitChars == <<"0", "1", "2", "3", "4", "5", "6", "7", "8", "9">>

\* str(n) for an integer n >= 0.
RECURSIVE NatStr(_)
NatStr(n) ==
  IF n < 10 THEN <<DigitChars[n + 1]>>
  ELSE NatStr(n \div 10) \o <<DigitChars[(n % 10) + 1]>>

Abs(n) == IF n < 0 THEN -n ELSE n

SignStr(n) == IF n < 0 THEN <<"-">> ELSE <<>>

\* The digits str() writes after the point for the fraction f (in units,
\* 0 < f < Unit): five places, without the zeros at the end.
RECURSIVE FracStr(_, _)
FracStr(f, place) ==
  IF f = 0 THEN <<>>
  ELSE <<DigitChars[(f \div place) + 1]>> \o FracStr(f % place, place \div 10)

\* str(value) for a float that is no whole number: digits around a point,
\* or mantissa and exponent when the value is below 0.0001.
FloatStr(value) ==
  IF Abs(value) < Unit \div 10000
  THEN SignStr(value) \o NatStr(Abs(value)) \o <<"e", "-", "0", "5">>
  ELSE SignStr(value) \o NatStr(Abs(value) \div Unit) \o <<".">>
       \o FracStr(Abs(value) % Unit, Unit \div 10)

\* `if value == int(value)`: str(int(value)), else str(value).
VolStr(value) ==
  IF value % Unit = 0
  THEN SignStr(value) \o NatStr(Abs(value) \div Unit)
  ELSE FloatStr(value)

\* f'<Volume value="{vol_str}"/>'
VolumeCommand(value) == <<"<Volume value=\"">> \o VolStr(value) \o <<"\"/>">>

\* str.replace(ch, ent) for a character ch.
RECURSIVE Replace(_, _, _)
Replace(s, ch, ent) ==
  IF s = <<>> THEN <<>>
  ELSE (IF Head(s) = ch THEN ent ELSE <<Head(s)>>) \o Replace(Tail(s), ch, ent)

\* A bug Escape could have: the ampersand is replaced last.
EscapeAmpLast(uri) ==
  LET lt   == Replace(uri, "<", <<"&", "l", "t", ";">>)
      gt   == Replace(lt, ">", <<"&", "g", "t", ";">>)
      quot == Replace(gt, "\"", <<"&", "q", "u", "o", "t", ";">>)
  IN  Replace(quot, "&", <<"&", "a", "m", "p", ";">>)

\* uri.replace("&", "&amp;").replace("<", "&lt;").replace(">", "&gt;")
\*    .replace('"', "&quot;")
Escape(uri) ==
  LET amp == Replace(uri, "&", <<"&", "a", "m", "p", ";">>)
      lt  == Replace(amp, "<", <<"&", "l", "t", ";">>)
      gt  == Replace(lt, ">", <<"&", "g", "t", ";">>)
  IN  Replace(gt, "\"", <<"&", "q", "u", "o", "t", ";">>)

\* f'<PlaylistAdd uri="{uri_escaped}"/>'
PlaylistAddCommand(uri) ==
  <<"<PlaylistAdd uri=\"">> \o Escape(uri) \o <<"\"/>">>

\* playlist_add's uris: every string of up to MaxUriLen of the characters
\* below, and "&lt;", "&amp;" and "a&quot;".
UriChars == {"&", "<", ">", "\"", "'", "a", ";"}

Uris ==
  UNION {[1..n -> UriChars] : n \in 0..MaxUriLen}
    \cup { <<"&", "l", "t", ";">>, <<"&", "a", "m", "p", ";">>,
           <<"a", "&", "q", "u", "o", "t", ";">> }

\* An attribute or an inner text that may be missing: <<>> when it is, <<v>>
\* when it is there with value v (a sequence of characters).
Absent == <<>>

Present(v) == <<v>>

\* The attributes of a response that are modelled: one integer field of the
\* status record, its float field, one of its text fields, an attribute the
\* record does not have (apod), and the result of a command.
AttrNames == {"state", "volume", "active_mode", "apod", "result"}

NoAttrs == [a \in AttrNames |-> Absent]

\* A response as ElementTree sees it: wf is whether it parses at all.
Doc(wf, tag, attrs, text) == [wf |-> wf, tag |-> tag, attrs |-> attrs, text |-> text]

\* Bytes that are no XML document: nothing at all, a cut document, noise.
Malformed == Doc(FALSE, "", NoAttrs, Absent)

\* The largest float has FloatMaxDigits digits before its point: float()
\* of a numeral with more of them is inf.
FloatMaxDigits == 309

\* 1 and 309 zeros.
LongNumeral == [i \in 1..(FloatMaxDigits + 1) |-> IF i = 1 THEN "1" ELSE "0"]

\* Values of a numeric attribute: "1", "75.9", "-1.5", "-21", "", a numeral
\* too long for a float, and two that are no decimal numerals, "abc" and
\* "inf".
IntAttrValues ==
  { <<"1">>, <<"7", "5", ".", "9">>, <<"-", "1", ".", "5">>, <<>>,
    LongNumeral, <<"a", "b", "c">>, <<"i", "n", "f">> }

\* "-21", "-15.5", "-40", "0", "-60", "" and "abc".
FloatAttrValues ==
  { <<"-", "2", "1">>, <<"-", "1", "5", ".", "5">>, <<"-", "4", "0">>,
    <<"0">>, <<"-", "6", "0">>, <<>>, <<"a", "b", "c">> }

ResultValues == { <<"O", "K">>, <<"o", "k">>, <<"E", "r", "r", "o", "r">>, <<>> }

Option(S) == {Absent} \cup {Present(v) : v \in S}

StatusDoc(st, vol, mode, apod) ==
  Doc(TRUE, "Status",
      [a \in AttrNames |->
         CASE a = "state" -> st [] a = "volume" -> vol
           [] a = "active_mode" -> mode [] a = "apod" -> apod
           [] OTHER -> Absent],
      Absent)

\* The Status elements: every state beside the sample volume, every volume
\* without a state, and the other two attributes there or not.
StatusDocs ==
  { StatusDoc(st, Present(<<"-", "2", "1">>), Absent, Absent) :
      st \in Option(IntAttrValues) }
  \cup { StatusDoc(Absent, vol, Absent, Absent) : vol \in Option(FloatAttrValues) }
  \cup { StatusDoc(Present(<<"1">>), Present(<<"-", "1", "5", ".", "5">>), mode, apod) :
           mode \in Option({<<"S", "D", "M">>}), apod \in Option({<<"0">>}) }

ResultDocs ==
  { Doc(TRUE, tag, [NoAttrs EXCEPT !["result"] = res], text) :
      tag \in {"Play", "Stop", "Volume"},
      res \in Option(ResultValues), text \in Option({<<"X">>}) }

Responses == StatusDocs \cup ResultDocs \cup {Malformed}

\* attrs.get(name, default)
AttrGet(doc, name, default) ==
  IF doc.attrs[name] = Absent THEN default ELSE doc.attrs[name][1]

IsDigit(ch) == \E i \in 1..10 : DigitChars[i] = ch

DigitVal(ch) == (CHOOSE i \in 1..10 : DigitChars[i] = ch) - 1

Negative(value) == value # <<>> /\ value[1] = "-"

Unsigned(value) == IF Negative(value) THEN Tail(value) ELSE value

\* What float() takes, of the strings above: an optional sign and digits
\* with at most one point among them.
IsFloatLiteral(value) ==
  LET u    == Unsigned(value)
      dots == {i \in 1..Len(u) : u[i] = "."}
  IN  /\ Cardinality(dots) <= 1
      /\ Len(u) > Cardinality(dots)
      /\ \A i \in (1..Len(u)) \ dots : IsDigit(u[i])

\* The digits before the point and the digits after it.
IntDigits(u) ==
  IF \E i \in 1..Len(u) : u[i] = "."
  THEN SubSeq(u, 1, (CHOOSE i \in 1..Len(u) : u[i] = ".") - 1)
  ELSE u

FracDigits(u) ==
  IF \E i \in 1..Len(u) : u[i] = "."
  THEN SubSeq(u, (CHOOSE i \in 1..Len(u) : u[i] = ".") + 1, Len(u))
  ELSE <<>>

RECURSIVE DigitsValue(_)
DigitsValue(ds) ==
  IF ds = <<>> THEN 0
  ELSE 10 * DigitsValue(SubSeq(ds, 1, Len(ds) - 1)) + DigitVal(ds[Len(ds)])

\* float(value) is inf: the literal has too many digits before its point
\* (the literals modelled have no zeros in front).
FloatOverflows(value) == Len(IntDigits(Unsigned(value))) > FloatMaxDigits

\* int(float(value)) for a literal: the fraction is cut off, towards zero.
IntOfFloat(value) ==
  LET n == DigitsValue(IntDigits(Unsigned(value)))
  IN  IF Negative(value) THEN -n ELSE n

\* The digits ds after a point as a number of units, place being the weight
\* of the first of them (digits beyond the fifth are not modelled).
RECURSIVE FracValue(_, _)
FracValue(ds, place) ==
  IF ds = <<>> \/ place = 0 THEN 0
  ELSE DigitVal(ds[1]) * place + FracValue(Tail(ds), place \div 10)

\* float(value) for a literal, in units.
FloatOf(value) ==
  LET u == Unsigned(value)
      n == Unit * DigitsValue(IntDigits(u)) + FracValue(FracDigits(u), Unit \div 10)
  IN  IF Negative(value) THEN -n ELSE n

Result(exc, val) == [exc |-> exc, val |-> val]

\* _parse_int: the default for an empty value and for one float() or int()
\* rejects with ValueError; int() of the float inf raises OverflowError,
\* which is not caught.
ParseInt(value, default) ==
  IF value = <<>> THEN Result("", default)
  ELSE IF IsFloatLiteral(value)
       THEN IF FloatOverflows(value) THEN Result("OverflowError", default)
            ELSE Result("", IntOfFloat(value))
  ELSE IF Unsigned(value) = <<"i", "n", "f">> THEN Result("OverflowError", default)
  ELSE Result("", default)

\* float(attrs.get("volume", 0))
ParseFloat(value) ==
  IF IsFloatLiteral(value) THEN Result("", FloatOf(value))
  ELSE Result("ValueError", 0)

\* HQPStatus, by the fields modelled.
HQPStatus(state, volume, active_mode) ==
  [state |-> state, volume |-> volume, active_mode |-> active_mode]

DefaultStatus == HQPStatus(0, 0, <<>>)

\* A bug ParseStatusXml could have: a response that is no Status element
\* gives the default status.
ParseStatusXmlLenient(doc) == [exc |-> "", status |-> DefaultStatus]

\* parse_status_xml: the exception raised, or "" and the status.
ParseStatusXml(doc) ==
  IF ~doc.wf THEN [exc |-> "ParseError", status |-> DefaultStatus]
  ELSE IF doc.tag # "Status" THEN [exc |-> "ValueError", status |-> DefaultStatus]
  ELSE LET state  == ParseInt(AttrGet(doc, "state", <<"0">>), 0)
           volume == ParseFloat(AttrGet(doc, "volume", <<"0">>))
       IN  IF state.exc # "" THEN [exc |-> state.exc, status |-> DefaultStatus]
           ELSE IF volume.exc # "" THEN [exc |-> volume.exc, status |-> DefaultStatus]
           ELSE [exc |-> "",
                 status |-> HQPStatus(state.val, volume.val,
                                      AttrGet(doc, "active_mode", <<>>))]

\* A bug IsOK could have: the result is compared without regard to case.
IsOKAnyCase(result) == result \in {<<"O", "K">>, <<"o", "k">>}

\* `if result == "OK"`
IsOK(result) == result = <<"O", "K">>

\* `root.text or result`
ErrorText(text, result) ==
  IF text # Absent /\ text[1] # <<>> THEN text[1] ELSE result

\* parse_result_xml: the exception raised, or "" and (success, message).
ParseResultXml(doc) ==
  IF ~doc.wf THEN [exc |-> "ParseError", ok |-> FALSE, message |-> None]
  ELSE LET result == AttrGet(doc, "result", <<>>)
       IN  IF IsOK(result)
           THEN [exc |-> "", ok |-> TRUE, message |-> None]
           ELSE [exc |-> "", ok |-> FALSE, message |-> ErrorText(doc.text, result)]

\* What the awaits of _send_command can end with.
ReadErrors      == {"timeout", "reset", "undecodable"}

\* The exception an await's failure raises.
ExceptionOf(outcome) ==
  CASE outcome = "timeout" -> "TimeoutError"
    [] outcome = "refused" -> "ConnectionRefusedError"
    [] outcome = "reset" -> "ConnectionResetError"
    [] outcome = "undecodable" -> "UnicodeDecodeError"
    [] OTHER -> ""

IoEvent(ev, res) == [ev |-> ev, res |-> res]

\* The volumes the player starts with, where its volume is followed: -21,
\* -0.5 and -40.
DeviceVolumes == {-21 * Unit, -(Unit \div 2), -40 * Unit}

\* What the player answers to the command of method: anything at all, or,
\* where its volume is followed, the echo of a command with result="OK"
\* and, to a status query, a Status element that reports the volume as a
\* decimal numeral, or else bytes that are no document, or that echo.
Answers(method) ==
  LET echo == Doc(TRUE, "Volume",
                  [NoAttrs EXCEPT !["result"] = Present(<<"O", "K">>)], Absent)
  IN  IF device = Absent THEN Responses
      ELSE IF method = "get_status"
           THEN {StatusDoc(Present(<<"1">>), Present(FloatStr(device[1])),
                           Absent, Absent),
                 Malformed, echo}
           ELSE {echo}

\* The player's volume once it has carried out the command: the number that
\* the value token of a Volume element denotes.
Applied(method, xml_command) ==
  IF device # Absent /\ method = "set_volume"
  THEN Present(FloatOf(SubSeq(xml_command, 2, Len(xml_command) - 1)))
  ELSE device

\* --------------------------------------------------------------- Init
\* What a directory entry can be.  File contents are numbers: a profile
\* holds 1 or 2, the config 1 or 3, a content no profile starts with.  The bytes of a file that is not a profile
\* are never read, so one content stands for all of them.
Entries ==
  { [name |-> n, file |-> f] :
      n \in {m \in FileNames : EndsWith(m, Ext)},
      f \in {File(1), File(2), UnreadableFile} }
  \cup { [name |-> n, file |-> File(1)] :
           n \in {m \in FileNames : ~EndsWith(m, Ext)} }

\* Every listing of distinct file names, in every order.
Directories ==
  UNION { { s \in [1..n -> Entries] :
              \A i, j \in 1..n : i # j => s[i].name # s[j].name }
          : n \in 0..Cardinality(FileNames) }

ProfilesInit ==
  /\ dir_exists \in BOOLEAN
  /\ profiles_dir \in (IF dir_exists THEN Directories ELSE {<<>>})
  /\ config \in {File(1), File(3), UnreadableFile, NoFile}
  /\ alive \in BOOLEAN
  /\ now = 0
  /\ wait_timeout \in WaitTimeouts
  /\ poll_interval = 1
  /\ backend \in Backends
  /\ pc = [c \in Tasks |-> "Idle"]
  /\ epoch = [c \in Tasks |-> 0]
  /\ op = [c \in Tasks |-> "none"]
  /\ arg_name = [c \in Tasks |-> <<>>]
  /\ arg_wait = [c \in Tasks |-> FALSE]
  /\ log = [c \in Tasks |-> <<>>]
  /\ copy_ok = [c \in Tasks |-> FALSE]
  /\ exit_code = [c \in Tasks |-> 0]
  /\ start = [c \in Tasks |-> 0]
  /\ wake = [c \in Tasks |-> 0]
  /\ probe_at = [c \in Tasks |-> 0]
  /\ alive_seen = [c \in Tasks |-> FALSE]
  /\ probe_error = [c \in Tasks |-> ""]
  /\ cancelled = [c \in Tasks |-> FALSE]
  /\ ret = [c \in Tasks |-> FALSE]
  /\ detected = [c \in Tasks |-> None]
  /\ listed = [c \in Tasks |-> <<>>]

XmlInit ==
  /\ \E b \in VolumeBounds : volume_min = b[1] /\ volume_max = b[2]
  /\ device \in Option(DeviceVolumes)
  /\ xpc = [c \in Tasks |-> "Idle"]
  /\ xouter = [c \in Tasks |-> ""]
  /\ xstep = [c \in Tasks |-> 0]
  /\ xarg = [c \in Tasks |-> 0]
  /\ commands = [c \in Tasks |-> <<>>]
  /\ xop = [c \in Tasks |-> "none"]
  /\ xcmd = [c \in Tasks |-> <<>>]
  /\ sent = [c \in Tasks |-> <<>>]
  /\ conn = [c \in Tasks |-> "none"]
  /\ io = [c \in Tasks |-> <<>>]
  /\ xresp = [c \in Tasks |-> Malformed]
  /\ xexc = [c \in Tasks |-> ""]
  /\ xok = [c \in Tasks |-> FALSE]
  /\ xmsg = [c \in Tasks |-> None]
  /\ xstatus = [c \in Tasks |-> DefaultStatus]

\* A manager whose transport returns from every call, a client with the
\* default bounds, and a player that may answer anything.
Init ==
  /\ ProfilesInit
  /\ XmlInit
  /\ backend = "local"
  /\ <<volume_min, volume_max>> = DefaultBounds
  /\ device = Absent

\* ------------------------------------------------------------ actions
Terminal == {"Ready", "Failed"}
Polling  == {"Probing", "Sleeping"}

\* The task is not inside a call.
AtRest(c) == pc[c] \in {"Idle", "Raised", "Cancelled"} \cup Terminal

\* A bug NewCall could have: the calls of a manager exclude each other.
NewCallLocked(c, method) ==
  /\ \A o \in Tasks : AtRest(o)
  /\ op' = [op EXCEPT ![c] = method]
  /\ epoch' = [epoch EXCEPT ![c] = 1 - @]
  /\ start' = [start EXCEPT ![c] = 0]
  /\ wake' = [wake EXCEPT ![c] = 0]
  /\ probe_at' = [probe_at EXCEPT ![c] = 0]
  /\ alive_seen' = [alive_seen EXCEPT ![c] = FALSE]
  /\ probe_error' = [probe_error EXCEPT ![c] = ""]
  /\ cancelled' = [cancelled EXCEPT ![c] = FALSE]

\* A new call of task c starts: the previous call's record is dropped.
NewCall(c, method) ==
  /\ AtRest(c)
  /\ op' = [op EXCEPT ![c] = method]
  /\ epoch' = [epoch EXCEPT ![c] = 1 - @]
  /\ start' = [start EXCEPT ![c] = 0]
  /\ wake' = [wake EXCEPT ![c] = 0]
  /\ probe_at' = [probe_at EXCEPT ![c] = 0]
  /\ alive_seen' = [alive_seen EXCEPT ![c] = FALSE]
  /\ probe_error' = [probe_error EXCEPT ![c] = ""]
  /\ cancelled' = [cancelled EXCEPT ![c] = FALSE]

\* switch_profile up to its first await: the copy is handed to the transport.
SwitchProfile(c, name, wait) ==
  /\ NewCall(c, "switch_profile")
  /\ pc' = [pc EXCEPT ![c] = "Copying"]
  /\ arg_name' = [arg_name EXCEPT ![c] = name]
  /\ arg_wait' = [arg_wait EXCEPT ![c] = wait]
  /\ log' = [log EXCEPT ![c] =
               <<LogEntry("copy", CandidatePath(name) \o <<"->">> \o ConfigPath)>>]
  /\ copy_ok' = [copy_ok EXCEPT ![c] = FALSE]
  /\ exit_code' = [exit_code EXCEPT ![c] = 0]
  /\ ret' = [ret EXCEPT ![c] = FALSE]
  /\ detected' = [detected EXCEPT ![c] = None]
  /\ listed' = [listed EXCEPT ![c] = <<>>]
  /\ UNCHANGED <<fsVars, cfgVars, alive, now, xmlVars>>

\* `if not await self._copy_file(...)`: the copy's result sends the call to
\* its early return.
CopyFailedNever(ok) == FALSE

CopyFailed(ok) == ~ok

\* `if exit_code != 0`
RestartFailedNever(code) == FALSE

RestartFailed(code) == code # 0

\* `if wait`
WaitsAlways(wait) == TRUE

Waits(wait) == wait

\* `while time.monotonic() - start < self.wait_timeout`
LoopConditionLe(t, s, timeout) == t - s <= timeout

LoopConditionAlways(t, s, timeout) == TRUE

LoopConditionFirst(t, s, timeout) == t = s \/ t - s < timeout

LoopCondition(t, s, timeout) == t - s < timeout

\* `return False` after the loop of _wait_for_hqplayer.
TimedOutResultTrue == TRUE

TimedOutResult == FALSE

\* The loop head of _wait_for_hqplayer at clock value t, for a loop that
\* began at s: the next probe is started, or the wait gives up.
LoopHead(c, t, s) ==
  IF LoopCondition(t, s, wait_timeout)
  THEN /\ pc' = [pc EXCEPT ![c] = "Probing"]
       /\ log' = [log EXCEPT ![c] = Append(@, LogEntry("probe", <<>>))]
       /\ probe_at' = [probe_at EXCEPT ![c] = t]
       /\ ret' = ret
  ELSE /\ pc' = [pc EXCEPT ![c] = IF TimedOutResult THEN "Ready" ELSE "Failed"]
       /\ ret' = [ret EXCEPT ![c] = TimedOutResult]
       /\ UNCHANGED <<log, probe_at>>

\* A bug CopyDone could have: the copy goes to a place beside the config,
\* which is left as it is until the switch has succeeded.
CopyDoneStaged(c) ==
  /\ pc[c] = "Copying"
  /\ \E io_ok \in BOOLEAN :
       LET src == CandidatePath(arg_name[c])
           ok  == CanCopy(src, profiles_dir, config, io_ok)
       IN  /\ copy_ok' = [copy_ok EXCEPT ![c] = ok]
           /\ config' = config
           /\ IF CopyFailed(ok)
              THEN /\ pc' = [pc EXCEPT ![c] = "Failed"]
                   /\ ret' = [ret EXCEPT ![c] = FALSE]
                   /\ log' = log
              ELSE /\ pc' = [pc EXCEPT ![c] = "Restarting"]
                   /\ log' = [log EXCEPT ![c] =
                                Append(@, LogEntry("run", <<RestartCommand>>))]
                   /\ ret' = ret
  /\ UNCHANGED <<dir_exists, profiles_dir, cfgVars, alive, now, epoch, op,
                 arg_name, arg_wait, exit_code, start, wake, probe_at,
                 alive_seen, probe_error, cancelled, detected, listed, xmlVars>>

\* The copy returns; unless it failed the restart command is issued.
CopyDone(c) ==
  /\ pc[c] = "Copying"
  /\ \E io_ok \in BOOLEAN :
       LET src == CandidatePath(arg_name[c])
           ok  == CanCopy(src, profiles_dir, config, io_ok)
       IN  /\ copy_ok' = [copy_ok EXCEPT ![c] = ok]
           /\ config' = IF ok THEN File(FileAt(src, profiles_dir, config).data)
                              ELSE config
           /\ IF CopyFailed(ok)
              THEN /\ pc' = [pc EXCEPT ![c] = "Failed"]
                   /\ ret' = [ret EXCEPT ![c] = FALSE]
                   /\ log' = log
              ELSE /\ pc' = [pc EXCEPT ![c] = "Restarting"]
                   /\ log' = [log EXCEPT ![c] =
                                Append(@, LogEntry("run", <<RestartCommand>>))]
                   /\ ret' = ret
  /\ UNCHANGED <<dir_exists, profiles_dir, cfgVars, alive, now, epoch, op,
                 arg_name, arg_wait, exit_code, start, wake, probe_at,
                 alive_seen, probe_error, cancelled, detected, listed, xmlVars>>

\* The restart command returns, leaving the player up or down; with wait the
\* poll loop is entered and its first loop head runs.  The clock's origin
\* is moved to the loop's start when no other loop is running, and a loop
\* begins only while the clock has room for its wait_timeout.
RestartDone(c) ==
  /\ pc[c] = "Restarting"
  /\ \E code \in {0, 1}, up \in BOOLEAN :
       /\ exit_code' = [exit_code EXCEPT ![c] = code]
       /\ alive' = up
       /\ IF RestartFailed(code)
          THEN /\ pc' = [pc EXCEPT ![c] = "Failed"]
               /\ ret' = [ret EXCEPT ![c] = FALSE]
               /\ UNCHANGED <<log, probe_at, start, now>>
          ELSE IF Waits(arg_wait[c])
          THEN LET t == IF \E o \in Tasks : pc[o] \in Polling THEN now ELSE 0
               IN  /\ t + wait_timeout <= MaxNow
                   /\ now' = t
                   /\ start' = [start EXCEPT ![c] = t]
                   /\ LoopHead(c, t, t)
          ELSE /\ pc' = [pc EXCEPT ![c] = "Ready"]
               /\ ret' = [ret EXCEPT ![c] = TRUE]
               /\ UNCHANGED <<log, probe_at, start, now>>
  /\ UNCHANGED <<fsVars, cfgVars, epoch, op, arg_name, arg_wait, copy_ok,
                 wake, alive_seen, probe_error, cancelled, detected, listed,
                 xmlVars>>

\* A bug ProbeDone could have: the next probe follows a failed one at once.
ProbeDoneNoSleep(c) ==
  /\ pc[c] = "Probing"
  /\ \E outcome \in ProbeOutcomes(alive) :
       /\ probe_error' = [probe_error EXCEPT ![c] = outcome.error]
       /\ IF CheckAlive(outcome)
          THEN /\ pc' = [pc EXCEPT ![c] = "Ready"]
               /\ ret' = [ret EXCEPT ![c] = TRUE]
               /\ alive_seen' = [alive_seen EXCEPT ![c] = TRUE]
               /\ UNCHANGED <<log, probe_at>>
          ELSE /\ LoopHead(c, now, start[c])
               /\ UNCHANGED alive_seen
  /\ UNCHANGED <<fsVars, cfgVars, alive, now, epoch, op, arg_name, arg_wait,
                 copy_ok, exit_code, start, wake, cancelled, detected, listed,
                 xmlVars>>

\* A probe returns: True ends the wait, False starts the sleep; an error
\* that _check does not catch would end the call of switch_profile, which
\* has no handler of its own.
ProbeDone(c) ==
  /\ pc[c] = "Probing"
  /\ \E outcome \in ProbeOutcomes(alive) :
       /\ probe_error' = [probe_error EXCEPT ![c] = outcome.error]
       /\ IF ProbeRaises(outcome)
          THEN /\ pc' = [pc EXCEPT ![c] = "Raised"]
               /\ UNCHANGED <<ret, alive_seen, log, wake>>
          ELSE IF CheckAlive(outcome)
          THEN /\ pc' = [pc EXCEPT ![c] = "Ready"]
               /\ ret' = [ret EXCEPT ![c] = TRUE]
               /\ alive_seen' = [alive_seen EXCEPT ![c] = TRUE]
               /\ UNCHANGED <<log, wake>>
          ELSE /\ pc' = [pc EXCEPT ![c] = "Sleeping"]
               /\ wake' = [wake EXCEPT ![c] =
                             IF now + poll_interval < MaxNow
                             THEN now + poll_interval ELSE MaxNow]
               /\ log' = [log EXCEPT ![c] = Append(@, LogEntry("sleep", <<>>))]
               /\ UNCHANGED <<ret, alive_seen>>
  /\ UNCHANGED <<fsVars, cfgVars, alive, now, epoch, op, arg_name, arg_wait,
                 copy_ok, exit_code, start, probe_at, cancelled, detected,
                 listed, xmlVars>>

\* asyncio.sleep returns, not before poll_interval has passed (the clock
\* value MaxNow stands for every later time as well); the loop head runs.
SleepDone(c) ==
  /\ pc[c] = "Sleeping"
  /\ now >= wake[c]
  /\ LoopHead(c, now, start[c])
  /\ UNCHANGED <<fsVars, cfgVars, alive, now, epoch, op, arg_name, arg_wait,
                 copy_ok, exit_code, start, wake, alive_seen, probe_error,
                 cancelled, detected, listed, xmlVars>>

\* A bug GetCurrentProfileCall could have: the manager remembers the
\* profile of its last successful switch and reports it.
GetCurrentProfileRemembered(c) ==
  /\ NewCall(c, "get_current_profile")
  /\ LET r == GetCurrentProfile(profiles_dir, config)
     IN  /\ detected' = [detected EXCEPT ![c] =
                           IF op[c] = "switch_profile" /\ ret[c]
                           THEN arg_name[c] ELSE r.ret]
         /\ log' = [log EXCEPT ![c] = r.ops]
  /\ pc' = [pc EXCEPT ![c] = "Idle"]
  /\ listed' = [listed EXCEPT ![c] = <<>>]
  /\ exit_code' = [exit_code EXCEPT ![c] = 0]
  /\ ret' = [ret EXCEPT ![c] = FALSE]
  /\ UNCHANGED <<fsVars, cfgVars, alive, now, arg_name, arg_wait, copy_ok,
                 xmlVars>>

\* get_current_profile, as one step.
GetCurrentProfileCall(c) ==
  /\ NewCall(c, "get_current_profile")
  /\ LET r == GetCurrentProfile(profiles_dir, config)
     IN  /\ detected' = [detected EXCEPT ![c] = r.ret]
         /\ log' = [log EXCEPT ![c] = r.ops]
  /\ pc' = [pc EXCEPT ![c] = "Idle"]
  /\ listed' = [listed EXCEPT ![c] = <<>>]
  /\ exit_code' = [exit_code EXCEPT ![c] = 0]
  /\ ret' = [ret EXCEPT ![c] = FALSE]
  /\ UNCHANGED <<fsVars, cfgVars, alive, now, arg_name, arg_wait, copy_ok,
                 xmlVars>>

\* list_profiles, as one step.
ListProfilesCall(c) ==
  /\ NewCall(c, "list_profiles")
  /\ listed' = [listed EXCEPT ![c] = ListProfiles(profiles_dir)]
  /\ log' = [log EXCEPT ![c] = <<LogEntry("list", ProfilesPath)>>]
  /\ pc' = [pc EXCEPT ![c] = "Idle"]
  /\ detected' = [detected EXCEPT ![c] = None]
  /\ exit_code' = [exit_code EXCEPT ![c] = 0]
  /\ ret' = [ret EXCEPT ![c] = FALSE]
  /\ UNCHANGED <<fsVars, cfgVars, alive, now, arg_name, arg_wait, copy_ok,
                 xmlVars>>

\* `return await self._copy_file(...)`: save_current_as_profile's value.
SaveResultTrue(ok) == TRUE

SaveResult(ok) == ok

\* save_current_as_profile, as one step: the active config is copied onto
\* the candidate path.  A file that the copy creates appears at some place
\* of the listing; a file that it overwrites keeps its place.
SaveCurrentAsProfile(c, name) ==
  /\ NewCall(c, "save_current_as_profile")
  /\ \E io_ok \in BOOLEAN :
       LET profile_path == CandidatePath(name)
           ok == CanCopy(ConfigPath, profiles_dir, config, io_ok) /\ CanCreate(io_ok)
           i  == IndexOf(profile_path, profiles_dir)
           e  == [name |-> name \o Ext, file |-> File(config.data)]
       IN  /\ copy_ok' = [copy_ok EXCEPT ![c] = ok]
           /\ ret' = [ret EXCEPT ![c] = SaveResult(ok)]
           /\ IF ~ok THEN profiles_dir' = profiles_dir
              ELSE IF i > 0 THEN profiles_dir' = [profiles_dir EXCEPT ![i] = e]
              ELSE \E k \in 1..(Len(profiles_dir) + 1) :
                     profiles_dir' = InsertAt(profiles_dir, k, e)
           /\ log' = [log EXCEPT ![c] =
                        <<LogEntry("copy", ConfigPath \o <<"->">> \o profile_path)>>]
  /\ pc' = [pc EXCEPT ![c] = "Idle"]
  /\ arg_name' = [arg_name EXCEPT ![c] = name]
  /\ exit_code' = [exit_code EXCEPT ![c] = 0]
  /\ detected' = [detected EXCEPT ![c] = None]
  /\ listed' = [listed EXCEPT ![c] = <<>>]
  /\ UNCHANGED <<dir_exists, config, cfgVars, alive, now, arg_wait, xmlVars>>

\* f"rm '{profile_path}'"
RmCommand(profile_path) == <<"rm '">> \o profile_path \o <<"'">>

\* `return exit_code == 0`: delete_profile's value.
DeleteResultTrue(code) == TRUE

DeleteResult(code) == code = 0

\* delete_profile, as one step: rm removes the candidate path and exits 0,
\* or removes nothing and exits 1 (there is no such file, or the file or
\* the directory does not let it go).
DeleteProfile(c, name) ==
  /\ NewCall(c, "delete_profile")
  /\ \E io_ok \in BOOLEAN :
       LET profile_path == CandidatePath(name)
           i    == IndexOf(profile_path, profiles_dir)
           code == IF i > 0 /\ io_ok THEN 0 ELSE 1
       IN  /\ exit_code' = [exit_code EXCEPT ![c] = code]
           /\ ret' = [ret EXCEPT ![c] = DeleteResult(code)]
           /\ profiles_dir' = IF code = 0 THEN RemoveAt(profiles_dir, i)
                                          ELSE profiles_dir
           /\ log' = [log EXCEPT ![c] = <<LogEntry("run", RmCommand(profile_path))>>]
  /\ pc' = [pc EXCEPT ![c] = "Idle"]
  /\ arg_name' = [arg_name EXCEPT ![c] = name]
  /\ copy_ok' = [copy_ok EXCEPT ![c] = FALSE]
  /\ detected' = [detected EXCEPT ![c] = None]
  /\ listed' = [listed EXCEPT ![c] = <<>>]
  /\ UNCHANGED <<dir_exists, config, cfgVars, alive, now, arg_wait, xmlVars>>

\* A transport call of manager b can raise: _run_ssh_command has a finally
\* clause and no except clause, so what client.connect or exec_command
\* raises (an unreachable host, a refused login) goes to the caller; every
\* file operation of LocalProfileManager catches OSError.
Raises(b) == b = "ssh"

\* The outstanding command of a switch_profile call, its copy or its
\* restart, raises: switch_profile has no handler and ends with it.
CommandRaises(c) ==
  /\ Raises(backend)
  /\ pc[c] \in {"Copying", "Restarting"}
  /\ pc' = [pc EXCEPT ![c] = "Raised"]
  /\ UNCHANGED <<fsVars, cfgVars, alive, now, epoch, op, arg_name, arg_wait,
                 log, copy_ok, exit_code, start, wake, probe_at, alive_seen,
                 probe_error, cancelled, ret, detected, listed, xmlVars>>

\* The first transport call of a call of method raises (the hash of
\* get_current_profile, the listing of list_profiles, the copy of
\* save_current_as_profile, the rm of delete_profile): the method has no
\* handler and ends with it, having changed nothing.
CallRaises(c, method) ==
  /\ Raises(backend)
  /\ NewCall(c, method)
  /\ pc' = [pc EXCEPT ![c] = "Raised"]
  /\ log' = [log EXCEPT ![c] = <<>>]
  /\ copy_ok' = [copy_ok EXCEPT ![c] = FALSE]
  /\ exit_code' = [exit_code EXCEPT ![c] = 0]
  /\ ret' = [ret EXCEPT ![c] = FALSE]
  /\ detected' = [detected EXCEPT ![c] = None]
  /\ listed' = [listed EXCEPT ![c] = <<>>]
  /\ UNCHANGED <<fsVars, cfgVars, alive, now, arg_name, arg_wait, xmlVars>>

\* A bug HttpReply could have: the message of a failure names no cause.
HttpReplyPlain(success, name, wait) ==
  IF success
  THEN [success |-> TRUE, message |-> <<"Switched to profile: ">> \o name]
  ELSE [success |-> FALSE, message |-> <<"Failed to switch to profile: ">> \o name]

\* The HTTP handler's ResultResponse for the value success that
\* switch_profile(name, wait=wait) returned.
HttpReply(success, name, wait) ==
  IF success
  THEN [success |-> TRUE, message |-> <<"Switched to profile: ">> \o name]
  ELSE [success |-> FALSE,
        message |-> <<"Failed to switch to profile: ">> \o name
                    \o (IF wait THEN <<" (timeout waiting for service)">>
                                ELSE <<>>)]

\* What the CLI's switch command prints for the value success, and its exit
\* status.
CliOutput(success, no_wait) ==
  IF no_wait
  THEN IF success THEN [text |-> "Profile switch initiated.", exit |-> 0]
                  ELSE [text |-> "Failed to switch profile", exit |-> 1]
  ELSE IF success THEN [text |-> " ready!", exit |-> 0]
                  ELSE [text |-> " timeout!", exit |-> 1]

\* A bug OnCancel could have: the loop takes a cancellation for its timeout.
OnCancelTimesOut(p) == "Failed"

\* The CancelledError raised at the await of position p is caught nowhere
\* in _wait_for_hqplayer and switch_profile: it ends the call.
OnCancel(p) == "Cancelled"

\* The task of the call is cancelled from outside while the call is
\* suspended in its poll loop, at the await of the probe or of the sleep.
Cancel(c) ==
  /\ pc[c] \in Polling
  /\ pc' = [pc EXCEPT ![c] = OnCancel(pc[c])]
  /\ cancelled' = [cancelled EXCEPT ![c] = TRUE]
  /\ UNCHANGED <<fsVars, cfgVars, alive, now, epoch, op, arg_name, arg_wait,
                 log, copy_ok, exit_code, start, wake, probe_at, alive_seen,
                 probe_error, ret, detected, listed, xmlVars>>

\* time.monotonic() advances while some call is in its poll loop.
Tick ==
  /\ now < MaxNow
  /\ \E c \in Tasks : pc[c] \in Polling
  /\ now' = now + 1
  /\ UNCHANGED <<fsVars, cfgVars, alive, callVars, xmlVars>>

\* The player comes up or goes down on its own.
PlayerChange ==
  /\ \E c \in Tasks : pc[c] \in Polling
  /\ alive' = ~alive
  /\ UNCHANGED <<fsVars, cfgVars, now, callVars, xmlVars>>

\* ----------------------------------------------- HQPClient's actions
profVars == <<fsVars, cfgVars, alive, now, callVars>>

XmlAtRest(c) == xpc[c] \in {"Idle", "Returned", "Raised"}

\* _send_command is entered by method with xml_command, after the commands
\* cmds of the same call: it starts to open a connection of its own.
SendCommand(c, method, xml_command, cmds) ==
  /\ xpc' = [xpc EXCEPT ![c] = "Connecting"]
  /\ xop' = [xop EXCEPT ![c] = method]
  /\ xcmd' = [xcmd EXCEPT ![c] = xml_command]
  /\ commands' = [commands EXCEPT ![c] = Append(cmds, xml_command)]
  /\ sent' = [sent EXCEPT ![c] = <<>>]
  /\ conn' = [conn EXCEPT ![c] = "none"]
  /\ io' = [io EXCEPT ![c] = <<>>]
  /\ xresp' = [xresp EXCEPT ![c] = Malformed]

\* A method is called, builds its command and calls _send_command.
XmlCall(c, method, xml_command) ==
  /\ XmlAtRest(c)
  /\ SendCommand(c, method, xml_command, <<>>)
  /\ xexc' = [xexc EXCEPT ![c] = ""]
  /\ xok' = [xok EXCEPT ![c] = FALSE]
  /\ xmsg' = [xmsg EXCEPT ![c] = None]
  /\ xstatus' = [xstatus EXCEPT ![c] = DefaultStatus]
  /\ UNCHANGED <<profVars, boundVars, device>>

\* The caller of the method (volume_up or volume_down, or none), its step,
\* and the argument of the method itself (set_volume's value, playlist_add's
\* uri).
Args(c, outer, step, arg) ==
  /\ xouter' = [xouter EXCEPT ![c] = outer]
  /\ xstep' = [xstep EXCEPT ![c] = step]
  /\ xarg' = [xarg EXCEPT ![c] = arg]

GetStatus(c) ==
  XmlCall(c, "get_status", <<"<Status/>">>) /\ Args(c, "", 0, 0)

\* A bug SetVolume could have: the value is clamped into the bounds.
SetVolumeClamped(c, value) ==
  /\ XmlCall(c, "set_volume",
             VolumeCommand(IF value > volume_max THEN volume_max
                           ELSE IF value < volume_min THEN volume_min
                           ELSE value))
  /\ Args(c, "", 0, value)

SetVolume(c, value) ==
  XmlCall(c, "set_volume", VolumeCommand(value)) /\ Args(c, "", 0, value)

SimpleCommand(c, method) ==
  XmlCall(c, method, <<SimpleCommands[method]>>) /\ Args(c, "", 0, 0)

PlaylistAdd(c, uri) ==
  XmlCall(c, "playlist_add", PlaylistAddCommand(uri)) /\ Args(c, "", 0, uri)

\* volume_up and volume_down up to their first await, in get_status.
VolumeUp(c, step) ==
  XmlCall(c, "get_status", <<"<Status/>">>) /\ Args(c, "volume_up", step, 0)

VolumeDown(c, step) ==
  XmlCall(c, "get_status", <<"<Status/>">>) /\ Args(c, "volume_down", step, 0)

\* A bug NewVolume could have: the sum is not clamped.
NewVolumeUnclamped(outer, volume, step) ==
  IF outer = "volume_up" THEN volume + step ELSE volume - step

\* min(status.volume + step, self.volume_max) and
\* max(status.volume - step, self.volume_min)
NewVolume(outer, volume, step) ==
  IF outer = "volume_up"
  THEN IF volume + step < volume_max THEN volume + step ELSE volume_max
  ELSE IF volume - step > volume_min THEN volume - step ELSE volume_min

\* A bug ClosesOn could have: the close stands after the read, not in a
\* finally.
ClosesOnSuccess(outcome) == outcome = "ok"

\* `finally: writer.close()`: whatever the try block ended with.
ClosesOn(outcome) == TRUE

\* The end of the try block with the given outcome: the finally clause
\* closes the writer and awaits wait_closed.
Finally(c, outcome) ==
  IF ClosesOn(outcome)
  THEN /\ conn' = [conn EXCEPT ![c] = "closed"]
       /\ xpc' = [xpc EXCEPT ![c] = "Closing"]
  ELSE /\ conn' = conn
       /\ xpc' = [xpc EXCEPT ![c] = "Raised"]

FinallyEvents(outcome) ==
  IF ClosesOn(outcome) THEN <<IoEvent("close", "ok")>> ELSE <<>>

\* wait_for(open_connection) ends: with a connection, on which the command
\* is written and drained, or with an exception raised before the try.
ConnectDone(c) ==
  /\ xpc[c] = "Connecting"
  /\ \E outcome \in {"ok", "timeout", "refused"} :
       /\ io' = [io EXCEPT ![c] = Append(@, IoEvent("connect", outcome))]
       /\ IF outcome = "ok"
          THEN /\ conn' = [conn EXCEPT ![c] = "open"]
               /\ sent' = [sent EXCEPT ![c] = FullCommand(xcmd[c])]
               /\ xpc' = [xpc EXCEPT ![c] = "Draining"]
               /\ xexc' = xexc
          ELSE /\ xexc' = [xexc EXCEPT ![c] = ExceptionOf(outcome)]
               /\ xpc' = [xpc EXCEPT ![c] = "Raised"]
               /\ UNCHANGED <<conn, sent>>
  /\ UNCHANGED <<profVars, boundVars, device, xouter, xstep, xarg, commands,
                 xop, xcmd, xresp, xok, xmsg, xstatus>>

\* drain ends: the read is started, or the connection was lost.
DrainDone(c) ==
  /\ xpc[c] = "Draining"
  /\ \E outcome \in {"ok", "reset"} :
       IF outcome = "ok"
       THEN /\ io' = [io EXCEPT ![c] = Append(@, IoEvent("write", "ok"))]
            /\ xpc' = [xpc EXCEPT ![c] = "Reading"]
            /\ UNCHANGED <<conn, xexc>>
       ELSE /\ io' = [io EXCEPT ![c] =
                        Append(@, IoEvent("write", outcome)) \o FinallyEvents(outcome)]
            /\ xexc' = [xexc EXCEPT ![c] = ExceptionOf(outcome)]
            /\ Finally(c, outcome)
  /\ UNCHANGED <<profVars, boundVars, device, xouter, xstep, xarg, commands,
                 xop, xcmd, sent, xresp, xok, xmsg, xstatus>>

\* A bug ReadDone could have: it reads on until the peer closes.
ReadDoneUntilEof(c) ==
  /\ xpc[c] = "Reading"
  /\ \/ \E doc \in Answers(xop[c]) :
          /\ io' = [io EXCEPT ![c] = Append(@, IoEvent("read", "ok"))]
          /\ xresp' = [xresp EXCEPT ![c] = doc]
          /\ device' = Applied(xop[c], xcmd[c])
          /\ IF doc = Malformed
             THEN Finally(c, "ok")
             ELSE UNCHANGED <<conn, xpc>>
          /\ xexc' = xexc
     \/ \E outcome \in ReadErrors :
          /\ io' = [io EXCEPT ![c] =
                      Append(@, IoEvent("read", outcome)) \o FinallyEvents(outcome)]
          /\ xexc' = [xexc EXCEPT ![c] = ExceptionOf(outcome)]
          /\ xresp' = xresp
          /\ device' \in {device, Applied(xop[c], xcmd[c])}
          /\ Finally(c, outcome)
  /\ UNCHANGED <<profVars, boundVars, xouter, xstep, xarg, commands, xop,
                 xcmd, sent, xok, xmsg, xstatus>>

\* wait_for(reader.read(8192)) ends (the player has answered the command
\* by then, or the answer is lost and the command was carried out or not):
\* with bytes that decode to a response,
\* or with an exception (the timeout, a lost connection, bytes that are not
\* UTF-8); either way the finally clause runs.
ReadDone(c) ==
  /\ xpc[c] = "Reading"
  /\ \/ \E doc \in Answers(xop[c]) :
          /\ io' = [io EXCEPT ![c] =
                      Append(@, IoEvent("read", "ok")) \o FinallyEvents("ok")]
          /\ xresp' = [xresp EXCEPT ![c] = doc]
          /\ device' = Applied(xop[c], xcmd[c])
          /\ xexc' = xexc
          /\ Finally(c, "ok")
     \/ \E outcome \in ReadErrors :
          /\ io' = [io EXCEPT ![c] =
                      Append(@, IoEvent("read", outcome)) \o FinallyEvents(outcome)]
          /\ xexc' = [xexc EXCEPT ![c] = ExceptionOf(outcome)]
          /\ xresp' = xresp
          /\ device' \in {device, Applied(xop[c], xcmd[c])}
          /\ Finally(c, outcome)
  /\ UNCHANGED <<profVars, boundVars, xouter, xstep, xarg, commands, xop,
                 xcmd, sent, xok, xmsg, xstatus>>

\* wait_closed ends and _send_command is left: with the exception of its
\* try block, or with the response, which the method decodes at once.  The
\* status that volume_up or volume_down asked for is followed by their call
\* of set_volume, up to its first await.
CloseDone(c) ==
  /\ xpc[c] = "Closing"
  /\ IF xexc[c] # ""
     THEN /\ xpc' = [xpc EXCEPT ![c] = "Raised"]
          /\ UNCHANGED <<xexc, xok, xmsg, xstatus, exchVars, xarg>>
     ELSE IF xop[c] = "get_status"
     THEN LET r == ParseStatusXml(xresp[c])
          IN  /\ xexc' = [xexc EXCEPT ![c] = r.exc]
              /\ xstatus' = [xstatus EXCEPT ![c] = r.status]
              /\ UNCHANGED <<xok, xmsg>>
              /\ IF r.exc # ""
                 THEN /\ xpc' = [xpc EXCEPT ![c] = "Raised"]
                      /\ UNCHANGED <<exchVars, xarg>>
                 ELSE IF xouter[c] = ""
                 THEN /\ xpc' = [xpc EXCEPT ![c] = "Returned"]
                      /\ UNCHANGED <<exchVars, xarg>>
                 ELSE LET new_volume ==
                            NewVolume(xouter[c], r.status.volume, xstep[c])
                      IN  /\ SendCommand(c, "set_volume",
                                         VolumeCommand(new_volume), commands[c])
                          /\ xarg' = [xarg EXCEPT ![c] = new_volume]
     ELSE LET r == ParseResultXml(xresp[c])
          IN  /\ xexc' = [xexc EXCEPT ![c] = r.exc]
              /\ xok' = [xok EXCEPT ![c] = r.ok]
              /\ xmsg' = [xmsg EXCEPT ![c] = r.message]
              /\ xpc' = [xpc EXCEPT ![c] = IF r.exc # "" THEN "Raised" ELSE "Returned"]
              /\ UNCHANGED <<xstatus, exchVars, xarg>>
  /\ UNCHANGED <<profVars, boundVars, device, xouter, xstep>>

\* A bug Blocking could have: the probe's socket calls are made on the
\* event loop's own thread.
BlockingProbe(p) == p = "Probing"

\* A call at position p keeps the event loop from running anything else:
\* never, the probe runs in an executor thread and the sleep is
\* asyncio.sleep.
Blocking(p) == FALSE

\* The event loop can run the next segment of task c.
Runs(c) == \A o \in Tasks \ {c} : ~Blocking(pc[o])

TaskStep(c) ==
  \/ \E name \in SwitchNames, wait \in BOOLEAN : SwitchProfile(c, name, wait)
  \/ CopyDone(c)
  \/ RestartDone(c)
  \/ ProbeDone(c)
  \/ SleepDone(c)
  \/ GetCurrentProfileCall(c)
  \/ ListProfilesCall(c)

Next ==
  \/ \E c \in SeqTasks : TaskStep(c)
  \/ Tick
  \/ PlayerChange

Spec == Init /\ [][Next]_vars

\* The profile store on its own: profiles are saved, deleted, listed and
\* detected, and no switch is made.
StoreInit ==
  /\ Init
  /\ ~alive
  /\ wait_timeout = 0

SpecStore ==
  StoreInit /\
  [][\E c \in SeqTasks :
       \/ \E name \in SwitchNames : SaveCurrentAsProfile(c, name)
       \/ \E name \in SwitchNames : DeleteProfile(c, name)
       \/ GetCurrentProfileCall(c)
       \/ ListProfilesCall(c)]_vars

\* The client of the control port on its own, one call after the other.
ClientInit ==
  /\ Init
  /\ ~dir_exists
  /\ config = NoFile
  /\ ~alive
  /\ wait_timeout = 0

\* The awaits of _send_command.
ExchangeStep(c) ==
  \/ ConnectDone(c)
  \/ DrainDone(c)
  \/ ReadDone(c)
  \/ CloseDone(c)

SpecClient ==
  ClientInit /\
  [][\E c \in SeqTasks :
       \/ GetStatus(c)
       \/ \E value \in VolumeValues : SetVolume(c, value)
       \/ \E method \in SimpleMethods : SimpleCommand(c, method)
       \/ ExchangeStep(c)]_vars

\* The volume methods of a client with any of the bounds.
VolumeInit ==
  /\ ProfilesInit
  /\ XmlInit
  /\ backend = "local"
  /\ device = Absent
  /\ ~dir_exists
  /\ config = NoFile
  /\ ~alive
  /\ wait_timeout = 0

SpecVolume ==
  VolumeInit /\
  [][\E c \in SeqTasks :
       \/ \E step \in StepValues : VolumeUp(c, step)
       \/ \E step \in StepValues : VolumeDown(c, step)
       \/ \E value \in VolumeValues : SetVolume(c, value)
       \/ ExchangeStep(c)]_vars

\* playlist_add on its own, called once with any of the uris.
SpecPlaylist ==
  ClientInit /\
  [][\E c \in SeqTasks :
       \/ \E uri \in Uris : xpc[c] = "Idle" /\ PlaylistAdd(c, uri)
       \/ ExchangeStep(c)]_vars

\* A directory with the two profiles, of different contents, and a config
\* that is neither.
PairInit ==
  /\ Init
  /\ dir_exists
  /\ profiles_dir = << [name |-> <<"a", ".", "b">> \o Ext, file |-> File(1)],
                       [name |-> <<"L", " ", "R">> \o Ext, file |-> File(2)] >>
  /\ config = File(3)

\* The switch protocol with the fairness of its environment: the transport's
\* commands return, every probe returns, the sleep ends and the clock
\* advances.
SpecLive ==
  /\ Spec
  /\ \A c \in SeqTasks :
       /\ WF_vars(CopyDone(c))
       /\ WF_vars(RestartDone(c))
       /\ WF_vars(ProbeDone(c))
       /\ WF_vars(SleepDone(c))
  /\ WF_vars(Tick)

\* Two tasks, each switching once: the first to the first profile, the
\* second to the second.
RaceStep(c) ==
  \/ \E wait \in BOOLEAN :
       pc[c] = "Idle" /\ SwitchProfile(c, StripExt(profiles_dir[c].name), wait)
  \/ CopyDone(c)
  \/ RestartDone(c)
  \/ ProbeDone(c)
  \/ SleepDone(c)

SpecRace ==
  PairInit /\ [][(\E c \in Tasks : Runs(c) /\ RaceStep(c)) \/ Tick \/ PlayerChange]_vars

\* One task switches once, with wait; the other queries the status while
\* the switch is in its poll loop.
WaitStep(c) ==
  \/ /\ c \in SeqTasks
     /\ \/ \E name \in SwitchNames : pc[c] = "Idle" /\ SwitchProfile(c, name, TRUE)
        \/ CopyDone(c)
        \/ RestartDone(c)
        \/ ProbeDone(c)
        \/ SleepDone(c)
  \/ /\ c \notin SeqTasks
     /\ \/ (\E o \in SeqTasks : pc[o] \in Polling) /\ GetStatus(c)
        \/ ExchangeStep(c)

SpecWait ==
  PairInit /\ [][(\E c \in Tasks : Runs(c) /\ WaitStep(c)) \/ Tick \/ PlayerChange]_vars

\* The switch protocol with cancellation from outside.
SpecCancel ==
  PairInit /\ [][Next \/ (\E c \in SeqTasks : Cancel(c))]_vars

\* Either manager, with a player that is down and no time to wait, over a
\* directory of one file at most: the calls of the store and the switch,
\* over a transport that may fail.
BackendInit ==
  /\ ProfilesInit
  /\ XmlInit
  /\ Len(profiles_dir) <= 1
  /\ ~alive
  /\ wait_timeout = 0
  /\ <<volume_min, volume_max>> = DefaultBounds
  /\ device = Absent

SpecBackend ==
  BackendInit /\
  [][\E c \in SeqTasks :
       \/ \E name \in SwitchNames : SwitchProfile(c, name, FALSE)
       \/ CopyDone(c)
       \/ RestartDone(c)
       \/ GetCurrentProfileCall(c)
       \/ ListProfilesCall(c)
       \/ SaveCurrentAsProfile(c, <<"Z">>)
       \/ \E name \in SwitchNames : DeleteProfile(c, name)
       \/ CommandRaises(c)
       \/ \E method \in {"list_profiles", "get_current_profile",
                          "save_current_as_profile", "delete_profile"} :
            CallRaises(c, method)]_vars

\* Two tasks and a player whose volume is followed: each task calls
\* volume_up or volume_down once.
DeviceInit ==
  /\ ProfilesInit
  /\ XmlInit
  /\ backend = "local"
  /\ ~dir_exists
  /\ config = NoFile
  /\ ~alive
  /\ wait_timeout = 0
  /\ device # Absent

SpecDevice ==
  DeviceInit /\
  [][\E c \in Tasks :
       \/ \E step \in StepValues : xpc[c] = "Idle" /\ VolumeUp(c, step)
       \/ \E step \in StepValues : xpc[c] = "Idle" /\ VolumeDown(c, step)
       \/ ExchangeStep(c)]_vars

TypeOK ==
  /\ now \in 0..MaxNow
  /\ alive \in BOOLEAN
  /\ \A c \in Tasks :
       /\ pc[c] \in {"Idle", "Copying", "Restarting", "Raised", "Cancelled"}
                     \cup Polling \cup Terminal
       /\ probe_error[c] \in {""} \cup ProbeErrors
       /\ ret[c] \in BOOLEAN
       /\ exit_code[c] \in {0, 1}

\* ===================================================== the properties
IsSwitch(c) == op[c] = "switch_profile"

\* How many entries of kind k the call of task c has logged.
Count(c, k) == Cardinality({i \in 1..Len(log[c]) : log[c][i].op = k})

\* C1: a switch_profile call whose copy failed has returned False, and its
\* log holds the copy alone: no restart command and no probe was issued,
\* whatever the name and whatever wait.
C1_CopyFailureShortCircuits ==
  \A c \in Tasks :
    (IsSwitch(c) /\ pc[c] # "Copying" /\ ~copy_ok[c]) =>
      /\ pc[c] = "Failed"
      /\ ret[c] = FALSE
      /\ Count(c, "run") = 0
      /\ Count(c, "probe") = 0
      /\ Count(c, "sleep") = 0
      /\ Len(log[c]) = 1

\* C1 witness: a waiting switch to a name no file carries has failed.
C1_Witness ==
  \E c \in Tasks :
    /\ IsSwitch(c) /\ pc[c] = "Failed" /\ ~copy_ok[c]
    /\ arg_wait[c] /\ arg_name[c] = <<"Z">>
    /\ \A i \in 1..Len(profiles_dir) :
         profiles_dir[i].name # arg_name[c] \o Ext

\* C2: after a successful copy and a restart command with a non-zero exit
\* code the call has returned False without any probe, with wait or without;
\* a call logs the restart command once if its copy succeeded, right after
\* the copy, and never otherwise.
C2_RestartFailureShortCircuits ==
  \A c \in Tasks :
    IsSwitch(c) =>
      /\ (copy_ok[c] /\ pc[c] # "Restarting" /\ exit_code[c] # 0) =>
           /\ pc[c] = "Failed"
           /\ ret[c] = FALSE
           /\ Count(c, "probe") = 0
           /\ Count(c, "sleep") = 0
      /\ Count(c, "run") = (IF copy_ok[c] THEN 1 ELSE 0)
      /\ Count(c, "copy") = 1
      /\ log[c][1].op = "copy"
      /\ copy_ok[c] => /\ log[c][2].op = "run"
                       /\ log[c][2].arg = <<RestartCommand>>

\* C2 witness: a waiting switch failed on the restart command's exit code.
C2_Witness ==
  \E c \in Tasks :
    /\ IsSwitch(c) /\ pc[c] = "Failed" /\ copy_ok[c]
    /\ exit_code[c] = 1 /\ arg_wait[c] /\ wait_timeout > 0

\* C3: switch_profile(name, wait=False) after a successful copy and a restart
\* command with exit code 0 has returned True and has logged no probe and no
\* sleep, whether the player is up or down.
C3_NoWaitReturnsTrue ==
  \A c \in Tasks :
    (IsSwitch(c) /\ ~arg_wait[c] /\ copy_ok[c] /\ pc[c] # "Restarting"
       /\ exit_code[c] = 0) =>
      /\ pc[c] = "Ready"
      /\ ret[c] = TRUE
      /\ Count(c, "probe") = 0
      /\ Count(c, "sleep") = 0
      /\ Len(log[c]) = 2

\* C3 witness: such a call has returned True while the player is down.
C3_Witness ==
  \E c \in Tasks :
    /\ IsSwitch(c) /\ ~arg_wait[c] /\ copy_ok[c] /\ pc[c] = "Ready"
    /\ ret[c] = TRUE /\ ~alive

\* The probes and sleeps of the call of task c, in order (its log after the
\* copy and the restart command).
PollLog(c) == SubSeq(log[c], 3, Len(log[c]))

\* C4: a switch_profile(name, wait=True) call that has returned after a
\* successful copy and restart without any probe returning true has returned
\* False; the probes and sleeps of a call alternate, beginning with a probe
\* (one sleep between two consecutive probes), and a probe that follows a
\* sleep starts no earlier than poll_interval after that sleep began.
C4_TimeoutReturnsFalse ==
  \A c \in Tasks :
    (IsSwitch(c) /\ arg_wait[c] /\ copy_ok[c]) =>
      /\ (pc[c] \in Terminal /\ exit_code[c] = 0 /\ ~alive_seen[c]) =>
           /\ ret[c] = FALSE
           /\ pc[c] = "Failed"
      /\ \A i \in 1..Len(PollLog(c)) :
           PollLog(c)[i].op = (IF i % 2 = 1 THEN "probe" ELSE "sleep")
      /\ (pc[c] = "Probing" /\ Count(c, "sleep") > 0) => probe_at[c] >= wake[c]
      /\ pc[c] = "Sleeping" => wake[c] >= probe_at[c] + poll_interval

\* C4 witness: a waiting call has timed out after two failed probes.
C4_Witness ==
  \E c \in Tasks :
    /\ IsSwitch(c) /\ arg_wait[c] /\ copy_ok[c] /\ exit_code[c] = 0
    /\ pc[c] = "Failed" /\ ~alive_seen[c]
    /\ Count(c, "probe") = 2 /\ Count(c, "sleep") = 2

\* C5: a switch_profile(name, wait=True) call that has returned has returned
\* True exactly when its copy succeeded, its restart command exited 0 and a
\* probe of it returned true; once a probe has returned true the call is
\* over with that probe as the last entry of its log; and every probe was
\* started less than wait_timeout after the loop began.
C5_WaitReturnsTrueIff ==
  \A c \in Tasks :
    (IsSwitch(c) /\ arg_wait[c]) =>
      /\ pc[c] \in Terminal =>
           (ret[c] = TRUE <=> (copy_ok[c] /\ exit_code[c] = 0 /\ alive_seen[c]))
      /\ alive_seen[c] =>
           /\ pc[c] = "Ready"
           /\ log[c][Len(log[c])].op = "probe"
      /\ Count(c, "probe") > 0 =>
           /\ probe_at[c] - start[c] < wait_timeout
           /\ probe_at[c] >= start[c]

\* C5 witness: a waiting call has returned True on its second probe.
C5_Witness ==
  \E c \in Tasks :
    /\ IsSwitch(c) /\ arg_wait[c] /\ pc[c] = "Ready" /\ ret[c] = TRUE
    /\ alive_seen[c] /\ Count(c, "probe") = 2 /\ Count(c, "sleep") = 1
    /\ probe_at[c] > start[c]

\* The state of the spec's switch state machine that a position stands for.
State(p) == IF p \in Polling THEN "Polling" ELSE p

\* One step of the waiting call of task c, from position p to position q.
C6_Edge(c, p, q) ==
  \/ p = q
  \/ /\ p = "Copying" /\ q = "Restarting" /\ copy_ok'[c]
  \/ /\ p = "Copying" /\ q = "Failed" /\ ~copy_ok'[c]
  \/ /\ p = "Restarting" /\ q = "Polling" /\ exit_code'[c] = 0
  \/ /\ p = "Restarting" /\ q = "Failed"
     /\ \/ exit_code'[c] # 0
        \/ exit_code'[c] = 0 /\ ~(now' - start'[c] < wait_timeout)
  \/ /\ p = "Polling" /\ q = "Ready" /\ alive_seen'[c]
  \/ /\ p = "Polling" /\ q = "Failed" /\ ~(now - start[c] < wait_timeout)

\* C6: a switch_profile(name, wait=True) call starts by leaving Idle for
\* Copying and then moves only along Copying -> Restarting -> Polling ->
\* Ready, or to Failed from Copying (the copy failed), from Restarting (a
\* non-zero exit code) or from Polling (wait_timeout elapsed; a loop whose
\* first test already fails passes through Polling within the step that
\* ends the restart); in Ready and in Failed the call stays where it is and
\* its log grows no more: no further copy, restart command or probe.
C6_SwitchStateMachine ==
  [][ \A c \in Tasks :
        /\ (epoch'[c] # epoch[c] /\ op'[c] = "switch_profile") =>
             /\ pc'[c] = "Copying"
             /\ Len(log'[c]) = 1 /\ log'[c][1].op = "copy"
        /\ (epoch'[c] = epoch[c] /\ IsSwitch(c) /\ arg_wait[c]) =>
             /\ pc[c] # "Idle"
             /\ C6_Edge(c, State(pc[c]), State(pc'[c]))
             /\ pc[c] \in Terminal =>
                  /\ pc'[c] = pc[c]
                  /\ log'[c] = log[c]
                  /\ ret'[c] = ret[c]
    ]_vars

\* C6 witness: a waiting call has failed by timing out during its one probe.
C6_Witness ==
  \E c \in Tasks :
    /\ IsSwitch(c) /\ arg_wait[c] /\ copy_ok[c] /\ exit_code[c] = 0
    /\ pc[c] = "Failed" /\ Count(c, "probe") = 1 /\ Count(c, "sleep") = 1

\* A file name that is some name followed by ".xml".
HasExt(f) ==
  /\ Len(f) >= 4
  /\ f[Len(f) - 3] = "." /\ f[Len(f) - 2] = "x"
  /\ f[Len(f) - 1] = "m" /\ f[Len(f)] = "l"

CanRead(f) == f.exists /\ f.readable

\* Entry i of the directory is a profile whose checksum is the checksum of
\* the active config.
MatchesConfig(i) ==
  /\ HasExt(profiles_dir[i].name)
  /\ CanRead(profiles_dir[i].file)
  /\ CanRead(config)
  /\ Md5(profiles_dir[i].file.data) = Md5(config.data)

FirstMatch ==
  CHOOSE i \in 1..Len(profiles_dir) :
    MatchesConfig(i) /\ \A j \in 1..(i - 1) : ~MatchesConfig(j)

IsDetect(c) == op[c] = "get_current_profile"

\* C7: with a readable active config and a matching profile,
\* get_current_profile returns the name of the first entry of the listing
\* that ends in ".xml" and has the config's checksum: of two profiles with
\* the same content the earlier one, whatever name switch_profile was last
\* given.
C7_DetectsFirstMatch ==
  \A c \in Tasks :
    (IsDetect(c) /\ \E i \in 1..Len(profiles_dir) : MatchesConfig(i)) =>
      detected[c] \o Ext = profiles_dir[FirstMatch].name

\* C7 witness: two profiles hold the config's content, the later one was the
\* one switched to, and the earlier one is reported.
C7_Witness ==
  \E c \in Tasks : \E i, j \in 1..Len(profiles_dir) :
    /\ IsDetect(c) /\ copy_ok[c]
    /\ i < j /\ MatchesConfig(i) /\ MatchesConfig(j)
    /\ arg_name[c] \o Ext = profiles_dir[j].name
    /\ detected[c] \o Ext = profiles_dir[i].name
    /\ detected[c] # arg_name[c]

\* C8: get_current_profile returns None when no listed profile has the
\* config's checksum: also for an empty directory, and for a profile whose
\* checksum is unavailable.
C8_NoMatchGivesNone ==
  \A c \in Tasks :
    (IsDetect(c) /\ \A i \in 1..Len(profiles_dir) : ~MatchesConfig(i)) =>
      detected[c] = None

\* C8 witness: None is returned with a readable config, an unreadable profile
\* and a readable profile of another content in the directory.
C8_Witness ==
  \E c \in Tasks : \E i, j \in 1..Len(profiles_dir) :
    /\ IsDetect(c) /\ detected[c] = None /\ CanRead(config)
    /\ HasExt(profiles_dir[i].name) /\ ~CanRead(profiles_dir[i].file)
    /\ HasExt(profiles_dir[j].name) /\ CanRead(profiles_dir[j].file)

\* C9: when the config's checksum is unavailable (the file is missing or
\* unreadable) get_current_profile returns None and its only transport call
\* is the hash of config_path: no listing, no hash of a profile.
C9_UnreadableConfigGivesNone ==
  \A c \in Tasks :
    (IsDetect(c) /\ ~CanRead(config)) =>
      /\ detected[c] = None
      /\ Len(log[c]) = 1
      /\ log[c][1].op = "hash"
      /\ log[c][1].arg = ConfigPath

\* C9 witness: None is returned for an unreadable config while the directory
\* holds a profile whose checksum is unavailable too.
C9_Witness ==
  \E c \in Tasks : \E i \in 1..Len(profiles_dir) :
    /\ IsDetect(c) /\ detected[c] = None
    /\ config.exists /\ ~config.readable
    /\ HasExt(profiles_dir[i].name) /\ ~CanRead(profiles_dir[i].file)

\* Entry i of the directory is the profile file of name n.
IsProfileOf(i, n) == profiles_dir[i].name = n \o Ext

\* C10: every name list_profiles returns addresses, as switch_profile's
\* candidate, the listed file it was taken from; and when the copy of the
\* latest switch_profile(n) succeeded and no profile listed before n's has
\* n's content, a get_current_profile that follows returns n, spaces and
\* all.
C10_ListSwitchDetectRoundTrip ==
  \A c \in Tasks :
    /\ op[c] = "list_profiles" =>
         /\ Len(listed[c]) =
              Cardinality({i \in 1..Len(profiles_dir) : HasExt(profiles_dir[i].name)})
         /\ \A k \in 1..Len(listed[c]) :
              /\ CandidatePath(listed[c][k].name) = listed[c][k].path
              /\ \E i \in 1..Len(profiles_dir) :
                   /\ IsProfileOf(i, listed[c][k].name)
                   /\ ProfilePath(profiles_dir[i].name) = listed[c][k].path
    /\ (IsDetect(c) /\ copy_ok[c]) =>
         \A i \in 1..Len(profiles_dir) :
           ( /\ IsProfileOf(i, arg_name[c])
             /\ \A j \in 1..(i - 1) :
                  ~( /\ HasExt(profiles_dir[j].name)
                     /\ CanRead(profiles_dir[j].file)
                     /\ profiles_dir[j].file.data = profiles_dir[i].file.data ) )
           => detected[c] = arg_name[c]

\* C10 witness: the name with a space went through switch_profile and is
\* reported, past an earlier profile of another content.
C10_Witness ==
  \E c \in Tasks : \E i, j \in 1..Len(profiles_dir) :
    /\ IsDetect(c) /\ copy_ok[c]
    /\ arg_name[c] = <<"L", " ", "R">> /\ detected[c] = arg_name[c]
    /\ j < i /\ IsProfileOf(i, arg_name[c])
    /\ HasExt(profiles_dir[j].name) /\ CanRead(profiles_dir[j].file)
    /\ profiles_dir[j].file.data # profiles_dir[i].file.data

\* How many of the first i entries of the directory are profile files.
Rank(i) == Cardinality({j \in 1..i : HasExt(profiles_dir[j].name)})

\* C11: list_profiles returns one Profile for each entry of the listing
\* that ends in ".xml" and none for any other entry, in the listing's order:
\* the profile of the k-th such entry is the k-th of the result, its name
\* followed by ".xml" is the file name and its path is profiles_path, "/"
\* and the file name; an empty or missing directory gives the empty list.
C11_ListProfilesExact ==
  \A c \in Tasks :
    op[c] = "list_profiles" =>
      /\ (~dir_exists \/ profiles_dir = <<>>) => listed[c] = <<>>
      /\ Len(listed[c]) = Rank(Len(profiles_dir))
      /\ \A i \in 1..Len(profiles_dir) :
           HasExt(profiles_dir[i].name) =>
             /\ listed[c][Rank(i)].name \o Ext = profiles_dir[i].name
             /\ listed[c][Rank(i)].path =
                  ProfilesPath \o <<"/">> \o profiles_dir[i].name

\* C11 witness: of three entries the middle one is no profile, and the two
\* profiles are returned in the listing's order, "L R" before "a.b".
C11_Witness ==
  \E c \in Tasks :
    /\ op[c] = "list_profiles" /\ Len(profiles_dir) = 3
    /\ ~HasExt(profiles_dir[2].name)
    /\ Len(listed[c]) = 2
    /\ listed[c][1].name = <<"L", " ", "R">>
    /\ listed[c][2].name = <<"a", ".", "b">>

HasDot(n) == \E i \in 1..Len(n) : n[i] = "."

\* C12: no name that list_profiles returns contains the character ".",
\* whatever files the directory holds.
C12_NameHasNoSeparator ==
  \A c \in Tasks :
    op[c] = "list_profiles" =>
      \A k \in 1..Len(listed[c]) : ~HasDot(listed[c][k].name)

\* The step is a call of save_current_as_profile by task c.
IsSaveStep(c) == epoch'[c] # epoch[c] /\ op'[c] = "save_current_as_profile"

\* The entries of d other than the profile file of name n, in order.
Others(d, n) == SelectSeq(d, LAMBDA e : e.name # n \o Ext)

\* C13: save_current_as_profile(n) issues one copy, from config_path to the
\* candidate path of n, and nothing else (no restart command, no probe),
\* and returns what the copy returned; config_path and every other file
\* stay as they are; after a True return list_profiles yields n with the
\* candidate path, and that file holds the content of config_path; after a
\* False return the directory is as it was.
C13_SaveCopiesConfig ==
  [][ \A c \in Tasks :
        IsSaveStep(c) =>
          LET n     == arg_name'[c]
              after == ListProfiles(profiles_dir')
          IN  /\ ret'[c] = copy_ok'[c]
              /\ log'[c] = <<LogEntry("copy",
                                      ConfigPath \o <<"->">> \o CandidatePath(n))>>
              /\ config' = config
              /\ alive' = alive
              /\ Others(profiles_dir', n) = Others(profiles_dir, n)
              /\ ret'[c] =>
                   /\ CanRead(config)
                   /\ \E k \in 1..Len(after) :
                        /\ after[k].name = n
                        /\ after[k].path = CandidatePath(n)
                   /\ \E i \in 1..Len(profiles_dir') :
                        /\ profiles_dir'[i].name = n \o Ext
                        /\ CanRead(profiles_dir'[i].file)
                        /\ profiles_dir'[i].file.data = config.data
              /\ ~ret'[c] => profiles_dir' = profiles_dir
    ]_vars

\* C13 witness: the config of content 3 was saved under a name that no file
\* carried, into a directory that holds other files.
C13_Witness ==
  \E c \in Tasks : \E i \in 1..Len(profiles_dir) :
    /\ op[c] = "save_current_as_profile" /\ ret[c] /\ arg_name[c] = <<"Z">>
    /\ profiles_dir[i].name = <<"Z">> \o Ext
    /\ profiles_dir[i].file.data = 3 /\ config = File(3)
    /\ Len(profiles_dir) = 3

\* The step is a call of delete_profile by task c.
IsDeleteStep(c) == epoch'[c] # epoch[c] /\ op'[c] = "delete_profile"

\* Directory d holds the profile file of name n.
Holds(d, n) == \E i \in 1..Len(d) : d[i].name = n \o Ext

\* C14: delete_profile(n) issues one command, the rm of the candidate path
\* of n (no restart command), and returns True exactly when that command
\* exited 0, which it does exactly when it removed the file: never when
\* there was no such profile; after a True return list_profiles no longer
\* yields n; config_path and every other entry of the directory stay as
\* they are, and after a False return so does the whole directory.
C14_DeleteRemovesOnlyCandidate ==
  [][ \A c \in Tasks :
        IsDeleteStep(c) =>
          LET n     == arg_name'[c]
              after == ListProfiles(profiles_dir')
          IN  /\ ret'[c] = (exit_code'[c] = 0)
              /\ ret'[c] = (Holds(profiles_dir, n) /\ ~Holds(profiles_dir', n))
              /\ ~Holds(profiles_dir, n) => ~ret'[c]
              /\ ret'[c] => \A k \in 1..Len(after) : after[k].name # n
              /\ ~ret'[c] => profiles_dir' = profiles_dir
              /\ Others(profiles_dir', n) = Others(profiles_dir, n)
              /\ config' = config
              /\ alive' = alive
              /\ log'[c] = <<LogEntry("run", RmCommand(CandidatePath(n)))>>
              /\ log'[c][1].arg # <<RestartCommand>>
    ]_vars

\* C14 witness: the profile "L R" was deleted and the two other files of
\* the directory are still there.
C14_Witness ==
  \E c \in Tasks :
    /\ op[c] = "delete_profile" /\ ret[c] /\ arg_name[c] = <<"L", " ", "R">>
    /\ ~Holds(profiles_dir, arg_name[c])
    /\ Holds(profiles_dir, <<"a", ".", "b">>)
    /\ Len(profiles_dir) = 2

\* C15: no call of switch_profile ends by an exception of a probe; while the
\* latest probe of a call is one that met a socket error (refused, reset,
\* timeout), no probe of the call has counted as alive and the call has not
\* returned True: it sleeps, or has started the next probe, or has given up
\* because wait_timeout elapsed, with the sleep after that probe logged.
C15_ProbeErrorIsNotAlive ==
  \A c \in Tasks :
    IsSwitch(c) =>
      /\ pc[c] # "Raised"
      /\ probe_error[c] # "" =>
           /\ pc[c] \in {"Sleeping", "Probing", "Failed"}
           /\ ~alive_seen[c]
           /\ ret[c] = FALSE
           /\ Count(c, "sleep") >= 1
           /\ Count(c, "sleep") = Count(c, "probe") - (IF pc[c] = "Probing" THEN 1 ELSE 0)

\* C15 witness: a probe timed out on its socket and the call has started
\* its second probe.
C15_Witness ==
  \E c \in Tasks :
    /\ IsSwitch(c) /\ pc[c] = "Probing" /\ probe_error[c] = "timeout"
    /\ Count(c, "probe") = 2 /\ Count(c, "sleep") = 1

\* ---------------------------------------------- HQPClient's properties
Ended(c) == xpc[c] \in {"Returned", "Raised"}

\* The call of task c got its connection.
Opened(c) == \E i \in 1..Len(io[c]) : io[c][i] = IoEvent("connect", "ok")

\* C16: a call that has returned or raised holds no open connection: if its
\* connect succeeded the connection is closed, the close being the last
\* socket operation of the call, whether the drain, the read or the decoding
\* failed or not; a connection is open only while the call drains or reads.
C16_ConnectionAlwaysClosed ==
  \A c \in Tasks :
    /\ (Ended(c) \/ xpc[c] = "Idle") => conn[c] # "open"
    /\ (Ended(c) /\ Opened(c)) =>
         /\ conn[c] = "closed"
         /\ io[c][Len(io[c])].ev = "close"
    /\ conn[c] = "open" => xpc[c] \in {"Draining", "Reading"}

\* C16 witness: a call whose read timed out has raised, its connection
\* closed.
C16_Witness ==
  \E c \in Tasks :
    /\ xpc[c] = "Raised" /\ xexc[c] = "TimeoutError" /\ Opened(c)
    /\ conn[c] = "closed"
    /\ \E i \in 1..Len(io[c]) : io[c][i] = IoEvent("read", "timeout")

TimedOut(c) == \E i \in 1..Len(io[c]) : io[c][i].res = "timeout"

Lost(c) == \E i \in 1..Len(io[c]) : io[c][i].res \in {"refused", "reset"}

GotResponse(c) == \E i \in 1..Len(io[c]) : io[c][i] = IoEvent("read", "ok")

\* The root element the player answers a method's command with.
ExpectedRoot ==
  [play |-> "Play", pause |-> "Pause", stop |-> "Stop", next_track |-> "Next",
   previous_track |-> "Previous", playlist_clear |-> "PlaylistClear",
   set_volume |-> "Volume", get_status |-> "Status",
   playlist_add |-> "PlaylistAdd"]

\* The response is no document, or its root is not the one the command of
\* the call is answered with.
WrongResponse(c) ==
  /\ GotResponse(c)
  /\ ~xresp[c].wf \/ xresp[c].tag # ExpectedRoot[xop[c]]

\* What the caller of an ended call sees.
Outcome(c) ==
  IF xpc[c] = "Raised"
  THEN CASE xexc[c] = "TimeoutError" -> "timeout"
         [] xexc[c] \in {"ConnectionRefusedError", "ConnectionResetError"}
              -> "unavailable"
         [] xexc[c] \in {"ParseError", "ValueError", "UnicodeDecodeError"}
              -> "protocol error"
         [] OTHER -> "other error"
  ELSE IF xop[c] = "get_status" THEN "status"
  ELSE IF xok[c] THEN "true" ELSE "false"

\* C17: an ended call whose connect or read timed out shows a timeout, one
\* whose connection was refused or reset shows unavailable, one whose
\* response was malformed or had the wrong root shows a protocol error, and
\* a command whose response was well-formed, of the right root and not OK
\* shows a plain False; the four are different outcomes.
C17_FourOutcomesDistinct ==
  \A c \in Tasks :
    Ended(c) =>
      /\ TimedOut(c) => Outcome(c) = "timeout"
      /\ Lost(c) => Outcome(c) = "unavailable"
      /\ WrongResponse(c) => Outcome(c) = "protocol error"
      /\ ( /\ GotResponse(c) /\ ~WrongResponse(c) /\ xop[c] # "get_status"
           /\ xresp[c].attrs["result"] # Present(<<"O", "K">>) )
         => Outcome(c) = "false"

Events(c) == [i \in 1..Len(io[c]) |-> io[c][i].ev]

Cycle == <<"connect", "write", "read", "close">>

\* C18: the socket operations of a call are an initial part of connect,
\* write, read, close, each at most once and in that order, with the close
\* right after a write or read that failed; a call that _send_command
\* answered has done all four, all successful; a call makes one connect
\* attempt and, once an operation has failed, no further connect, write or
\* read.
C18_SingleShotExchange ==
  \A c \in Tasks :
    /\ \/ \E k \in 0..4 : Events(c) = SubSeq(Cycle, 1, k)
       \/ Events(c) = <<"connect", "write", "close">>
    /\ xpc[c] # "Idle" =>
         Cardinality({i \in 1..Len(io[c]) : io[c][i].ev = "connect"})
           + (IF xpc[c] = "Connecting" THEN 1 ELSE 0) = 1
    /\ \A i \in 1..Len(io[c]) :
         io[c][i].res # "ok" =>
           \A j \in (i + 1)..Len(io[c]) : io[c][j].ev = "close"
    /\ (xpc[c] = "Returned" \/ (xpc[c] = "Raised" /\ GotResponse(c))) =>
         /\ Events(c) = Cycle
         /\ \A i \in 1..Len(io[c]) : io[c][i].res = "ok"
    /\ (Ended(c) /\ Len(sent[c]) > 0) => sent[c] = FullCommand(xcmd[c])

\* C18 witness: a stop command was answered after one full cycle.
C18_Witness ==
  \E c \in Tasks :
    /\ xpc[c] = "Returned" /\ xop[c] = "stop" /\ xok[c]
    /\ Events(c) = Cycle
    /\ sent[c] = <<Prologue, "<Stop/>">>

IsCommand(c) == xop[c] \in SimpleMethods \cup {"set_volume"}

\* C19: a transport command or set_volume that has returned has returned
\* True exactly when the result attribute of the response is "OK", and then
\* the message is absent; otherwise the message is the inner text when
\* there is one, else the value of the result attribute (the empty string
\* when the attribute is missing).
C19_ResultDecoding ==
  \A c \in Tasks :
    (IsCommand(c) /\ xpc[c] = "Returned") =>
      LET res  == xresp[c].attrs["result"]
          text == xresp[c].text
      IN  /\ xok[c] = (res = Present(<<"O", "K">>))
          /\ xok[c] => xmsg[c] = None
          /\ ~xok[c] =>
               xmsg[c] = (IF text # Absent THEN text[1]
                          ELSE IF res # Absent THEN res[1] ELSE <<>>)

\* C19 witness: play was answered with result "Error" and the text "X", and
\* has returned False with that text as the message.
C19_Witness ==
  \E c \in Tasks :
    /\ xpc[c] = "Returned" /\ xop[c] = "play" /\ ~xok[c]
    /\ xresp[c].attrs["result"] = Present(<<"E", "r", "r", "o", "r">>)
    /\ xmsg[c] = <<"X">>

\* C20: get_status raises a protocol error (ParseError, ValueError) for a
\* response that is malformed or whose root is not Status, and for every
\* well-formed Status element it returns a status in which each absent
\* attribute has its default.
C20_StatusDecoding ==
  \A c \in Tasks :
    (xop[c] = "get_status" /\ Ended(c) /\ GotResponse(c)) =>
      LET d == xresp[c]
      IN  /\ (~d.wf \/ d.tag # "Status") =>
               /\ xpc[c] = "Raised"
               /\ xexc[c] \in {"ParseError", "ValueError"}
          /\ (d.wf /\ d.tag = "Status") =>
               /\ xpc[c] = "Returned"
               /\ d.attrs["state"] = Absent => xstatus[c].state = 0
               /\ d.attrs["volume"] = Absent => xstatus[c].volume = 0
               /\ d.attrs["active_mode"] = Absent => xstatus[c].active_mode = <<>>

\* The integer part of the numerals of IntAttrValues that a float can hold,
\* cut off towards zero.
Truncated(value) ==
  CASE value = <<"1">> -> 1
    [] value = <<"7", "5", ".", "9">> -> 75
    [] value = <<"-", "1", ".", "5">> -> -1

\* C21: get_status on a well-formed Status element whose state attribute is
\* a decimal numeral (and whose volume is absent or a numeral) returns, and
\* the state of the status is the numeral's integer part, cut off towards
\* zero.
C21_IntegerFieldsTruncate ==
  \A c \in Tasks :
    LET d == xresp[c]
    IN  (/\ xop[c] = "get_status" /\ Ended(c) /\ GotResponse(c)
         /\ d.wf /\ d.tag = "Status"
         /\ d.attrs["state"] # Absent /\ IsFloatLiteral(d.attrs["state"][1])
         /\ d.attrs["volume"] # Absent => IsFloatLiteral(d.attrs["volume"][1]))
        => /\ xpc[c] = "Returned"
           /\ d.attrs["state"][1] # LongNumeral =>
                xstatus[c].state = Truncated(d.attrs["state"][1])

\* ------------------------------------------------ the volume methods
\* The call of task c is volume_up or volume_down and has called set_volume.
Stepped(c) == xouter[c] # "" /\ xop[c] = "set_volume"

\* The call of task c is a call of set_volume itself.
IsSet(c) == xouter[c] = "" /\ xop[c] = "set_volume"

\* The value token of the volume-set command of task c.
Token(c) == SubSeq(xcmd[c], 2, Len(xcmd[c]) - 1)

\* The token is a numeral of the value v: digits around a point at most, or
\* one digit and the exponent -05.
Denotes(token, v) ==
  IF IsFloatLiteral(token) THEN FloatOf(token) = v
  ELSE LET u == Unsigned(token)
       IN  /\ Len(u) = 5 /\ IsDigit(u[1])
           /\ SubSeq(u, 2, 5) = <<"e", "-", "0", "5">>
           /\ v = (IF Negative(token) THEN -DigitVal(u[1]) ELSE DigitVal(u[1]))

\* C22: the value that volume_up or volume_down has asked the player to set
\* lies in [volume_min, volume_max], whatever volume the status reported,
\* whatever the step and the bounds.
C22_SteppedVolumeInBounds ==
  \A c \in Tasks :
    (Stepped(c) /\ Len(sent[c]) > 0) =>
      /\ Denotes(Token(c), xarg[c])
      /\ volume_min <= xarg[c]
      /\ xarg[c] <= volume_max

\* C23: with v the volume of the status that the call's own status query
\* returned, volume_up has handed min(v + step, volume_max) and volume_down
\* max(v - step, volume_min) to set_volume, in the second and last command
\* of the call, and a call that returned has returned the flag of that
\* command's response; with the default bounds and step, up from -40 writes
\* -39, up from 0 writes 0, down from 0 writes -1, down from -40 writes -40.
C23_StepSemantics ==
  \A c \in Tasks :
    Stepped(c) =>
      LET v    == xstatus[c].volume
          up   == xouter[c] = "volume_up"
          sum  == IF up THEN v + xstep[c] ELSE v - xstep[c]
          want == IF up THEN (IF sum > volume_max THEN volume_max ELSE sum)
                        ELSE (IF sum < volume_min THEN volume_min ELSE sum)
      IN  /\ xarg[c] = want
          /\ Denotes(Token(c), want)
          /\ commands[c] = <<(<<"<Status/>">>), xcmd[c]>>
          /\ xcmd[c] = <<"<Volume value=\"">> \o Token(c) \o <<"\"/>">>
          /\ xpc[c] = "Returned" =>
               xok[c] = (xresp[c].attrs["result"] = Present(<<"O", "K">>))
          /\ (<<volume_min, volume_max>> = <<-40 * Unit, 0>> /\ xstep[c] = Unit) =>
               /\ (up /\ v = -40 * Unit) => Token(c) = <<"-", "3", "9">>
               /\ (up /\ v = 0) => Token(c) = <<"0">>
               /\ (~up /\ v = 0) => Token(c) = <<"-", "1">>
               /\ (~up /\ v = -40 * Unit) => Token(c) = <<"-", "4", "0">>

\* C23 witness: with the default bounds volume_up from -40 has written -39
\* and has returned True.
C23_Witness ==
  \E c \in Tasks :
    /\ Stepped(c) /\ xouter[c] = "volume_up" /\ xstep[c] = Unit
    /\ <<volume_min, volume_max>> = <<-40 * Unit, 0>>
    /\ xstatus[c].volume = -40 * Unit
    /\ sent[c] = <<Prologue, "<Volume value=\"", "-", "3", "9", "\"/>">>
    /\ xpc[c] = "Returned" /\ xok[c]

\* C24: the value token of set_volume has no decimal point when the value
\* is a whole number and has one when the value has a fractional part:
\* -20.0 gives -20 and -15.5 gives -15.5.
C24_VolumeToken ==
  \A c \in Tasks :
    IsSet(c) =>
      LET point == \E i \in 1..Len(Token(c)) : Token(c)[i] = "."
      IN  /\ point = (xarg[c] % Unit # 0)
          /\ xarg[c] = -20 * Unit => Token(c) = <<"-", "2", "0">>
          /\ xarg[c] = -155 * (Unit \div 10) =>
               Token(c) = <<"-", "1", "5", ".", "5">>

\* C25: a call of set_volume hands one command to _send_command, the
\* volume-set command whose token is a numeral of the value given, be the
\* value inside the bounds or not; it makes no status query, and what it
\* writes to the connection is that command.
C25_SetVolumeUnclamped ==
  \A c \in Tasks :
    IsSet(c) =>
      /\ commands[c] = <<xcmd[c]>>
      /\ xcmd[c] = <<"<Volume value=\"">> \o Token(c) \o <<"\"/>">>
      /\ Denotes(Token(c), xarg[c])
      /\ Len(sent[c]) > 0 => sent[c] = <<Prologue>> \o xcmd[c]

\* C25 witness: set_volume(5.0) of a client whose volume_max is below 5.0
\* has written the value 5 and has returned.
C25_Witness ==
  \E c \in Tasks :
    /\ IsSet(c) /\ xarg[c] = 5 * Unit /\ volume_max < xarg[c]
    /\ sent[c] = <<Prologue, "<Volume value=\"", "5", "\"/>">>
    /\ xpc[c] = "Returned"

\* ------------------------------------------------------- playlist_add
\* The entities of XML: the character each stands for and its text.
Entities ==
  { [ch |-> "&",  text |-> <<"&", "a", "m", "p", ";">>],
    [ch |-> "<",  text |-> <<"&", "l", "t", ";">>],
    [ch |-> ">",  text |-> <<"&", "g", "t", ";">>],
    [ch |-> "\"", text |-> <<"&", "q", "u", "o", "t", ";">>] }

\* The entities that s begins with (one at most).
EntitiesAt(s) ==
  {e \in Entities : Len(s) >= Len(e.text) /\ SubSeq(s, 1, Len(e.text)) = e.text}

\* XML-unescaping of an attribute value.
RECURSIVE Unescape(_)
Unescape(s) ==
  IF s = <<>> THEN <<>>
  ELSE IF EntitiesAt(s) # {}
       THEN LET e == CHOOSE x \in EntitiesAt(s) : TRUE
            IN  <<e.ch>> \o Unescape(SubSeq(s, Len(e.text) + 1, Len(s)))
       ELSE <<Head(s)>> \o Unescape(Tail(s))

\* The attribute value embedded in the command of task c.
Embedded(c) == SubSeq(xcmd[c], 2, Len(xcmd[c]) - 1)

\* C26: the value that playlist_add embeds in its command has no raw "<",
\* ">" or double quote, each "&" in it begins one of the four entities, and
\* unescaping it gives the uri back.
C26_PlaylistAddEscapes ==
  \A c \in Tasks :
    xop[c] = "playlist_add" =>
      LET v == Embedded(c)
      IN  /\ xcmd[c] = <<"<PlaylistAdd uri=\"">> \o v \o <<"\"/>">>
          /\ \A i \in 1..Len(v) :
               /\ v[i] \notin {"<", ">", "\""}
               /\ v[i] = "&" => EntitiesAt(SubSeq(v, i, Len(v))) # {}
          /\ Unescape(v) = xarg[c]

\* C26 witness: playlist_add("&lt;") has written the value "&amp;lt;" and
\* has returned.
C26_Witness ==
  \E c \in Tasks :
    /\ xop[c] = "playlist_add" /\ xarg[c] = <<"&", "l", "t", ";">>
    /\ sent[c] = <<Prologue, "<PlaylistAdd uri=\"">>
                   \o <<"&", "a", "m", "p", ";", "l", "t", ";">> \o <<"\"/>">>
    /\ xpc[c] = "Returned"

\* ------------------------------------------------ concurrent calls
\* The file that the switch of task c copies onto the config.
Source(c) == FileAt(CandidatePath(arg_name[c]), profiles_dir, config)

\* C27: nothing serialises two switch_profile calls: whatever the other
\* task is doing, a task can start its call, have its copy return and have
\* its restart command return; the config changes only by the copy of a
\* call, and every successful copy leaves the config with the content of
\* the profile it copied, so the config holds the profile of the copy that
\* came last.
C27_SwitchesRace ==
  /\ [](\A c \in Tasks :
         /\ pc[c] = "Idle" =>
              ENABLED (Runs(c) /\ SwitchProfile(c, StripExt(profiles_dir[c].name), FALSE))
         /\ pc[c] = "Copying" => ENABLED (Runs(c) /\ CopyDone(c))
         /\ pc[c] = "Restarting" => ENABLED (Runs(c) /\ RestartDone(c)))
  /\ [][/\ config' # config =>
             \E c \in Tasks : pc[c] = "Copying" /\ pc'[c] = "Restarting"
        /\ \A c \in Tasks :
             (pc[c] = "Copying" /\ pc'[c] = "Restarting") =>
               /\ copy_ok'[c]
               /\ config' = File(Source(c).data)]_vars

\* C27 witness: both calls have returned True, the second task's copy came
\* after the first task's and while the first task's call was polling (the
\* second loop began at a clock value the first loop had reached), and
\* get_current_profile would report the second task's profile.
C27_Witness ==
  /\ IsSwitch(1) /\ pc[1] = "Ready" /\ ret[1] /\ arg_wait[1] /\ copy_ok[1]
  /\ IsSwitch(2) /\ pc[2] = "Ready" /\ ret[2] /\ arg_wait[2] /\ copy_ok[2]
  /\ start[2] > 0
  /\ arg_name[1] # arg_name[2]
  /\ config = File(Source(2).data)
  /\ config # File(Source(1).data)
  /\ GetCurrentProfile(profiles_dir, config).ret = arg_name[2]

\* C28: while a switch_profile call is in its poll loop, waiting for a
\* probe or sleeping, another task can start a status query and take each
\* of its steps, and no step of the query moves the switch call: the query
\* can return while the switch is still polling.
C28_PollLoopDoesNotBlock ==
  /\ [](\A c \in SeqTasks, o \in Tasks \ SeqTasks :
         pc[c] \in Polling =>
           /\ XmlAtRest(o) => ENABLED (Runs(o) /\ GetStatus(o))
           /\ xpc[o] = "Connecting" =>
                ENABLED (Runs(o) /\ ConnectDone(o) /\ xpc'[o] = "Draining")
           /\ xpc[o] = "Draining" =>
                ENABLED (Runs(o) /\ DrainDone(o) /\ xpc'[o] = "Reading")
           /\ xpc[o] = "Reading" =>
                ENABLED (Runs(o) /\ ReadDone(o) /\ xexc'[o] = "")
           /\ xpc[o] = "Closing" => ENABLED (Runs(o) /\ CloseDone(o)))
  /\ [][xpc' # xpc =>
          \A c \in SeqTasks : /\ pc'[c] = pc[c]
                              /\ log'[c] = log[c]
                              /\ ret'[c] = ret[c]]_vars

\* C28 witness: the switch is asleep after its first probe and the status
\* query of the other task, begun in the loop, has returned a status.
C28_Witness ==
  /\ IsSwitch(1) /\ pc[1] = "Sleeping" /\ Count(1, "probe") = 1
  /\ xop[2] = "get_status" /\ xpc[2] = "Returned"
  /\ xstatus[2].volume = -21 * Unit

\* C29: every switch_profile call returns (it reaches Ready or Failed) when
\* its commands and probes return and the clock advances, and no probe is
\* begun once wait_timeout has passed since the loop began.
C29_PollLoopTerminates ==
  /\ \A c \in Tasks : (pc[c] = "Copying") ~> (pc[c] \in Terminal)
  /\ [](\A c \in Tasks :
         pc[c] = "Probing" =>
           /\ probe_at[c] - start[c] < wait_timeout
           /\ now - start[c] >= 0)

\* C29 witness: a call has left its loop with False when wait_timeout had
\* passed, two probes and two sleeps after the loop began.
C29_Witness ==
  \E c \in Tasks :
    /\ IsSwitch(c) /\ arg_wait[c] /\ pc[c] = "Failed" /\ ~ret[c]
    /\ exit_code[c] = 0 /\ copy_ok[c]
    /\ wait_timeout > 0 /\ now - start[c] >= wait_timeout
    /\ log[c][Len(log[c])].op = "sleep"
    /\ Count(c, "probe") = 2

\* C30: a call that is cancelled was in its poll loop, the cancellation
\* adds no probe and no sleep to it and sets no return value; from then on
\* the call is at Cancelled, which is neither Ready nor Failed, and starts
\* nothing more.
C30_CancelAbortsLoop ==
  /\ [](\A c \in Tasks :
         cancelled[c] => pc[c] = "Cancelled" /\ pc[c] \notin Terminal)
  /\ [][\A c \in Tasks :
          /\ (cancelled'[c] /\ ~cancelled[c]) =>
               /\ pc[c] \in Polling
               /\ log'[c] = log[c]
               /\ ret'[c] = ret[c]
          /\ (cancelled[c] /\ cancelled'[c]) => log'[c] = log[c]]_vars

\* C30 witness: a call was cancelled during the sleep after its first
\* probe.
C30_Witness ==
  \E c \in Tasks :
    /\ IsSwitch(c) /\ cancelled[c] /\ pc[c] = "Cancelled"
    /\ Count(c, "probe") = 1 /\ Count(c, "sleep") = 1
    /\ log[c][Len(log[c])].op = "sleep"

\* ------------------------------------------------ the two managers
\* C31: with either manager, no call of list_profiles, get_current_profile,
\* switch_profile or save_current_as_profile ends with an exception: a
\* failure of the transport or of a file operation shows as False, as the
\* empty list or as None.
C31_FailuresNeverRaise ==
  \A c \in Tasks :
    op[c] \in {"list_profiles", "get_current_profile", "switch_profile",
               "save_current_as_profile"}
      => pc[c] # "Raised"

\* The Profiles of the directory as it stands: one for each entry that ends
\* in ".xml", in the listing's order.
ProfilesNow ==
  LET files == SelectSeq(profiles_dir, LAMBDA e : HasExt(e.name))
  IN  [k \in 1..Len(files) |->
         [name |-> SubSeq(files[k].name, 1, Len(files[k].name) - 4),
          path |-> ProfilesPath \o <<"/">> \o files[k].name]]

\* The name of the first profile of the directory as it stands that has the
\* checksum of the config as it stands, None when there is none.
ActiveNow ==
  IF \E i \in 1..Len(profiles_dir) : MatchesConfig(i)
  THEN SubSeq(profiles_dir[FirstMatch].name, 1,
              Len(profiles_dir[FirstMatch].name) - 4)
  ELSE None

\* A call of one of the methods is made by task c and returns.
Returns(c, methods) ==
  epoch'[c] # epoch[c] /\ op'[c] \in methods /\ pc'[c] # "Raised"

\* C32: a call of list_profiles or get_current_profile returns what the
\* directory and the files hold at the call, whatever calls came before it
\* (so a profile saved, deleted or switched to shows in the next call); it
\* leaves the config, the profiles and the player as they are, and its
\* transport calls are listings and checksums only: no copy, no command,
\* no probe.
C32_StoreKeepsNoState ==
  [][\A c \in Tasks :
       /\ Returns(c, {"list_profiles"}) => listed'[c] = ProfilesNow
       /\ Returns(c, {"get_current_profile"}) => detected'[c] = ActiveNow
       /\ Returns(c, {"list_profiles", "get_current_profile"}) =>
            /\ UNCHANGED <<dir_exists, profiles_dir, config, alive>>
            /\ pc'[c] = "Idle"
            /\ \A i \in 1..Len(log'[c]) : log'[c][i].op \in {"list", "hash"}]_vars

\* C32 witness: the profile Z that the call before saved is in the list
\* that list_profiles returns, before a profile that was there already.
C32_Witness ==
  \E c \in Tasks :
    /\ op[c] = "list_profiles" /\ pc[c] = "Idle"
    /\ arg_name[c] = <<"Z">> /\ copy_ok[c]
    /\ Len(listed[c]) = 2 /\ listed[c][1].name = <<"Z">>

\* ------------------------------------------------ failed switches
\* Entry i of the directory is the candidate of the switch of task c.
IsCandidate(c, i) == profiles_dir[i].name = arg_name[c] \o Ext

\* C33: when switch_profile has returned False after its copy succeeded
\* (the restart command failed, or the wait timed out), the config holds
\* the candidate's bytes, and get_current_profile reports the candidate or
\* a profile listed before it that has the same content; a call of
\* get_current_profile made then returns that name.
C33_NoRollback ==
  /\ [](\A c \in Tasks :
         (IsSwitch(c) /\ pc[c] = "Failed" /\ copy_ok[c]) =>
           \E j \in 1..Len(profiles_dir) :
             /\ IsCandidate(c, j)
             /\ config = File(profiles_dir[j].file.data)
             /\ \E i \in 1..j :
                  /\ profiles_dir[i].file = profiles_dir[j].file
                  /\ GetCurrentProfile(profiles_dir, config).ret \o Ext =
                       profiles_dir[i].name)
  /\ [][\A c \in Tasks :
          (IsSwitch(c) /\ pc[c] = "Failed" /\ copy_ok[c]
             /\ Returns(c, {"get_current_profile"})) =>
            detected'[c] = GetCurrentProfile(profiles_dir, config).ret]_vars

\* C33 witness: a switch to a profile of content 2 has timed out after a
\* probe, the config, which held another content before, holds 2, and the
\* candidate is what get_current_profile reports.
C33_Witness ==
  \E c \in Tasks :
    /\ IsSwitch(c) /\ pc[c] = "Failed" /\ ~ret[c] /\ copy_ok[c]
    /\ arg_wait[c] /\ exit_code[c] = 0 /\ Count(c, "probe") >= 1
    /\ config = File(2)
    /\ GetCurrentProfile(profiles_dir, config).ret = arg_name[c]

\* ------------------------------------------------ concurrent volume steps
\* Both tasks called volume_up with the same step and both got True.
BothUp(step) ==
  \A c \in Tasks :
    /\ xouter[c] = "volume_up" /\ xstep[c] = step
    /\ xop[c] = "set_volume" /\ xpc[c] = "Returned" /\ xok[c]

Min(a, b) == IF a < b THEN a ELSE b

\* C34: when two volume_up calls with the same step run concurrently from
\* the player's volume v and both return True, the player's volume is
\* min(v + step, volume_max), one step being lost, or
\* min(v + 2 * step, volume_max), and nothing else.
C34_LostUpdate ==
  \A v \in DeviceVolumes, step \in StepValues :
    (device = Present(v)) =>
      [](BothUp(step) =>
           device \in {Present(Min(v + step, volume_max)),
                       Present(Min(v + 2 * step, volume_max))})

\* C34 witness: both calls read the same volume before either wrote, both
\* returned True, and the player is one step, not two, above what they
\* read.
C34_Witness ==
  /\ BothUp(Unit)
  /\ xstatus[1].volume = xstatus[2].volume
  /\ device = Present(xstatus[1].volume + Unit)
  /\ xstatus[1].volume + 2 * Unit <= volume_max

\* C35: volume_up and volume_down send the Volume command only in the step
\* in which their status query has returned a Status element that decodes;
\* a call whose status query failed (a timeout, a lost connection, a
\* response that is no document or no Status element) has ended with that
\* exception having sent the status query alone, and the player's volume
\* changes only in the exchange of a Volume command.
C35_SetOnlyAfterStatus ==
  /\ [](\A c \in Tasks :
         (xouter[c] # "" /\ xop[c] = "get_status" /\ xpc[c] = "Raised") =>
           /\ xexc[c] # ""
           /\ commands[c] = << <<"<Status/>">> >>)
  /\ [][/\ \A c \in Tasks :
             (xouter[c] # "" /\ Len(commands'[c]) > Len(commands[c])
                /\ Len(commands[c]) > 0) =>
               /\ xop[c] = "get_status" /\ xexc[c] = "" /\ GotResponse(c)
               /\ xresp[c].wf /\ xresp[c].tag = "Status"
               /\ xexc'[c] = "" /\ xop'[c] = "set_volume"
        /\ device' # device =>
             \E c \in Tasks : xop[c] = "set_volume" /\ xpc[c] = "Reading"]_vars

\* C35 witness: the status query of a volume_down call was answered by
\* bytes that are no document; the call has ended with the parse error and
\* the status query is the one command it sent.
C35_Witness ==
  \E c \in Tasks :
    /\ xouter[c] = "volume_down" /\ xop[c] = "get_status"
    /\ xpc[c] = "Raised" /\ xexc[c] = "ParseError"
    /\ GotResponse(c) /\ Len(commands[c]) = 1
    /\ device # Absent

\* ------------------------------------------------ detection and listing
\* C36: the name that get_current_profile has returned is the name of one
\* of the Profiles that list_profiles returns over the same directory, and
\* the file at that Profile's path has a checksum, the one of the config.
C36_DetectedIsListed ==
  \A c \in Tasks :
    (IsDetect(c) /\ pc[c] = "Idle" /\ detected[c] # None) =>
      \E k \in 1..Len(ListProfiles(profiles_dir)) :
        LET p == ListProfiles(profiles_dir)[k]
        IN  /\ p.name = detected[c]
            /\ GetFileHash(p.path, profiles_dir, config) # None
            /\ GetFileHash(p.path, profiles_dir, config) =
                 GetFileHash(ConfigPath, profiles_dir, config)

\* C36 witness: the directory begins with a file that is no profile and a
\* profile of another content; the name returned is the second Profile of
\* the list.
C36_Witness ==
  \E c \in Tasks :
    /\ IsDetect(c) /\ pc[c] = "Idle"
    /\ Len(profiles_dir) = 3 /\ ~HasExt(profiles_dir[1].name)
    /\ Len(ListProfiles(profiles_dir)) = 2
    /\ detected[c] = ListProfiles(profiles_dir)[2].name
    /\ detected[c] # ListProfiles(profiles_dir)[1].name

\* ------------------------------------------------ the wait loop's boundary
\* The restart command of the switch of task c has returned 0.
Restarted(c) ==
  /\ IsSwitch(c) /\ copy_ok[c] /\ exit_code[c] = 0
  /\ pc[c] \in Polling \cup Terminal

\* C37: with wait_timeout > 0 a waiting switch whose restart succeeded has
\* issued a probe, the first thing in its loop is a probe, not a sleep, and
\* a probe that finds the player alive ends the call with True at once, the
\* first probe without any sleep; with wait_timeout <= 0 no probe is issued
\* and the call returns False, whether the player is alive or not.
C37_WaitLoopBoundary ==
  /\ [](\A c \in Tasks :
         (Restarted(c) /\ arg_wait[c]) =>
           /\ wait_timeout > 0 =>
                /\ Count(c, "probe") >= 1
                /\ PollLog(c)[1].op = "probe"
           /\ wait_timeout <= 0 =>
                /\ Count(c, "probe") = 0 /\ Count(c, "sleep") = 0
                /\ pc[c] = "Failed" /\ ~ret[c])
  /\ [][\A c \in Tasks :
          (pc[c] = "Probing" /\ pc'[c] = "Ready") =>
            /\ ret'[c] /\ log'[c] = log[c]
            /\ Count(c, "probe") = 1 => Count(c, "sleep") = 0]_vars

\* C37 witness: with a wait_timeout of zero or less the switch has returned
\* False without a probe although the restart succeeded and the player is
\* up.
C37_Witness ==
  \E c \in Tasks :
    /\ wait_timeout <= 0 /\ alive
    /\ Restarted(c) /\ arg_wait[c] /\ pc[c] = "Failed" /\ ~ret[c]
    /\ Len(log[c]) = 2

\* ------------------------------------------------ what a failure tells
\* C38: a switch_profile call that failed, because its copy failed, because
\* the restart command exited non-zero or because the wait timed out, has
\* returned the one value False; for a call with wait the HTTP handler's
\* message then ends in "(timeout waiting for service)" and the CLI prints
\* " timeout!", also when the call issued no probe.
C38_FailuresCollapse ==
  \A c \in Tasks :
    (IsSwitch(c) /\ pc[c] = "Failed") =>
      /\ ret[c] = FALSE
      /\ ~copy_ok[c] \/ exit_code[c] # 0
           \/ (arg_wait[c] /\ ~(now - start[c] < wait_timeout))
      /\ arg_wait[c] =>
           /\ HttpReply(ret[c], arg_name[c], arg_wait[c]) =
                [success |-> FALSE,
                 message |-> <<"Failed to switch to profile: ">> \o arg_name[c]
                             \o <<" (timeout waiting for service)">>]
           /\ CliOutput(ret[c], ~arg_wait[c]) = [text |-> " timeout!", exit |-> 1]

\* C38 witness: the copy of a switch with wait failed, no restart command
\* and no probe was issued, and the handler's message speaks of a timeout.
C38_Witness ==
  \E c \in Tasks :
    /\ IsSwitch(c) /\ pc[c] = "Failed" /\ arg_wait[c] /\ ~copy_ok[c]
    /\ Len(log[c]) = 1 /\ Count(c, "probe") = 0
    /\ HttpReply(ret[c], arg_name[c], arg_wait[c]).message =
         <<"Failed to switch to profile: ">> \o arg_name[c]
         \o <<" (timeout waiting for service)">>

====
